---- MODULE Spec2Model ----
(***************************************************************************)
(* Webhook event processor of Tribute-nodejs-api: TributeSubscriptionManager *)
(* (src/src/index.js) over InMemorySubscriptionStore (src/unnamed/part_001). *)
(*                                                                           *)
(* Dates are integers (milliseconds since the epoch, scaled); an absent or   *)
(* null date is NoTime.  Absent numeric payload fields are NoId / NoUser /   *)
(* NoAmount, absent string fields are Unset.  Every public method of the     *)
(* manager is one action that runs the whole call; the state then holds the  *)
(* call, the store before it, its result and its trace, until the caller     *)
(* returns to idle (Return) and the next call can start.                     *)
(* Pass-through fields that no handler branches on (userId, expiresAt,       *)
(* metadata, donationName, message, webAppLink, anonymously) are not stored; *)
(* a ledger entry keeps its kind, linking id, plan id and paidAt.             *)
(***************************************************************************)
EXTENDS Integers, Sequences, FiniteSets, TLC

\* ---------------------------------------------------------------- bounds
\* Timestamps range over 1..MaxTime; a behaviour makes at most MaxCalls
\* webhook deliveries and manual cancellations.
MaxTime == 2
MaxCalls == 2

\* ---------------------------------------------------------------- values
NoTime == 0
NoId == 0
NoUser == 0
NoAmount == 0
Unset == "unset"

Times == 1..MaxTime
Users == {1}
IntentIds == {1}

\* 15 minutes in the source; one unit of the integer time scale here.
DEFAULT_INTENT_TTL_MS == 1

SUPPORTED_WEBHOOK_EVENTS ==
  {"new_subscription", "cancelled_subscription", "new_donation",
   "recurrent_donation", "cancelled_donation"}

\* The plan catalogue handed to the constructor: the README quick-start plan
\* (bound to a provider subscription and period id) and the README
\* createTributeConfig plan (no provider ids: it matches on currency, period
\* and amount alone).
Plans ==
  << [id |-> "monthly-10", amount |-> 10, currency |-> "eur", period |-> "monthly",
      tributeSubscriptionId |-> 1, tributePeriodId |-> 11, price |-> NoAmount,
      subscriptionLink |-> "startapp=plan10"],
     [id |-> "basic-20", amount |-> 20, currency |-> "eur", period |-> "monthly",
      tributeSubscriptionId |-> NoId, tributePeriodId |-> NoId, price |-> NoAmount,
      subscriptionLink |-> "startapp=plan20"] >>

PlanIds == {Plans[i].id : i \in DOMAIN Plans}

\* ---------------------------------------------------------------- records
NoSub == [present |-> FALSE]
NoDonation == [present |-> FALSE]
NoIntent == [present |-> FALSE]

SubKeys == {1, 2, NoId}
DonationKeys == {1, 2}

\* ------------------------------------------------------------ date helpers
\* #parseDate: a missing value throws, anything else here is a valid date.
parseDateThrows(value) == value = NoTime

\* #getEventTimestamp: sent_at when present, else created_at.
getEventTimestamp(event) ==
  IF event.sent_at # NoTime THEN event.sent_at ELSE event.created_at

getEventTimestampThrows(event) ==
  IF event.sent_at # NoTime THEN parseDateThrows(event.sent_at)
  ELSE parseDateThrows(event.created_at)

getEventCreatedAt(event) == event.created_at

\* Faulty variant of #isOutdatedEvent: strict comparison.
isOutdatedEventStrict(previous, incoming) ==
  IF previous = NoTime THEN FALSE ELSE previous > incoming

\* Faulty variant of #isOutdatedEvent: no event is outdated.
isOutdatedEventNever(previous, incoming) == FALSE

\* #isOutdatedEvent
isOutdatedEvent(previous, incoming) ==
  IF previous = NoTime THEN FALSE ELSE previous >= incoming

\* ------------------------------------------------------------ plan lookup
toLowerCase(s) == CASE s = "EUR" -> "eur" [] s = "USD" -> "usd" [] OTHER -> s

\* Faulty variant of the #findPlanForPayload predicate: the period is compared
\* even when the payload has none.
PlanMatchesPeriodAlways(plan, payload) ==
  /\ ~(plan.tributeSubscriptionId # NoId /\ plan.tributeSubscriptionId # payload.subscription_id)
  /\ ~(plan.tributePeriodId # NoId /\ plan.tributePeriodId # payload.period_id)
  /\ ~(plan.price # NoAmount /\ plan.price # payload.price)
  /\ ~(plan.currency # Unset
        /\ toLowerCase(plan.currency)
             # toLowerCase(IF payload.currency = Unset THEN "" ELSE payload.currency))
  /\ ~(plan.period # Unset /\ plan.period # payload.period)
  /\ ~(plan.amount # NoAmount /\ plan.amount # payload.amount /\ plan.amount # payload.price)

\* The predicate of #findPlanForPayload's plans.find.
PlanMatches(plan, payload) ==
  /\ ~(plan.tributeSubscriptionId # NoId /\ plan.tributeSubscriptionId # payload.subscription_id)
  /\ ~(plan.tributePeriodId # NoId /\ plan.tributePeriodId # payload.period_id)
  /\ ~(plan.price # NoAmount /\ plan.price # payload.price)
  /\ ~(plan.currency # Unset
        /\ toLowerCase(plan.currency)
             # toLowerCase(IF payload.currency = Unset THEN "" ELSE payload.currency))
  /\ ~(plan.period # Unset /\ payload.period # Unset /\ plan.period # payload.period)
  /\ ~(plan.amount # NoAmount /\ plan.amount # payload.amount /\ plan.amount # payload.price)

\* #findPlanForPayload: index of the first matching plan, 0 when none matches.
findPlanForPayload(payload) ==
  LET hits == {i \in DOMAIN Plans : PlanMatches(Plans[i], payload)}
  IN IF hits = {} THEN 0 ELSE CHOOSE i \in hits : \A j \in hits : i <= j

\* ------------------------------------------------------------ store: intents
\* The intents Map is a sequence in insertion order.
RemoveAt(seq, drop) ==
  LET keep == {i \in DOMAIN seq : i \notin drop}
      F[i \in 0..Len(seq)] ==
        IF i = 0 THEN << >>
        ELSE IF i \in keep THEN Append(F[i - 1], seq[i]) ELSE F[i - 1]
  IN F[Len(seq)]

\* Faulty variant of consumeIntent: the intent is read but stays in the store.
consumeIntentKeep(ints, intentId) ==
  LET hit == {i \in DOMAIN ints : ints[i].id = intentId}
  IN IF hit = {} THEN [intent |-> NoIntent, intents |-> ints]
     ELSE [intent |-> ints[CHOOSE i \in hit : TRUE], intents |-> ints]

\* InMemorySubscriptionStore.consumeIntent
consumeIntent(ints, intentId) ==
  LET hit == {i \in DOMAIN ints : ints[i].id = intentId}
  IN IF hit = {} THEN [intent |-> NoIntent, intents |-> ints]
     ELSE [intent |-> ints[CHOOSE i \in hit : TRUE], intents |-> RemoveAt(ints, hit)]

\* Faulty variant of consumeIntentByTelegramAndPlan: the first intent of the
\* user and plan is taken, expired or not.
consumeIntentByTelegramAndPlanAnyExpiry(ints, telegramUserId, planId, t) ==
  LET match == {i \in DOMAIN ints :
                  ints[i].planId = planId /\ ints[i].telegramUserId = telegramUserId}
  IN IF match = {} THEN [intent |-> NoIntent, intents |-> ints]
     ELSE LET first == CHOOSE i \in match : \A j \in match : i <= j
          IN [intent |-> ints[first], intents |-> RemoveAt(ints, {first})]

\* InMemorySubscriptionStore.consumeIntentByTelegramAndPlan, at wall-clock t.
consumeIntentByTelegramAndPlan(ints, telegramUserId, planId, t) ==
  LET match == {i \in DOMAIN ints :
                  ints[i].planId = planId /\ ints[i].telegramUserId = telegramUserId}
      live == {i \in match : ~(ints[i].expiresAt < t)}
  IN IF live = {} THEN [intent |-> NoIntent, intents |-> RemoveAt(ints, match)]
     ELSE LET first == CHOOSE i \in live : \A j \in live : i <= j
              gone == {i \in match : i <= first}
          IN [intent |-> ints[first], intents |-> RemoveAt(ints, gone)]

\* ------------------------------------------------------ store: subscriptions
Get(map, key, none) == IF key \in DOMAIN map THEN map[key] ELSE none

\* Faulty variant of upsertSubscription: the record it replaces is not reported.
upsertSubscriptionNoPrevious(subs, subscription) ==
  [previous |-> NoSub,
   subscriptions |-> [subs EXCEPT ![subscription.tributeSubscriptionId] = subscription]]

\* Faulty variant of upsertSubscription: a record that replaces a cancelled
\* one keeps its cancellation.
upsertSubscriptionKeepCancelled(subs, subscription) ==
  LET previous == subs[subscription.tributeSubscriptionId]
      stored == IF previous.present /\ previous.status = "cancelled"
                THEN [subscription EXCEPT !.status = "cancelled",
                                          !.cancelledAt = previous.cancelledAt,
                                          !.cancelReason = previous.cancelReason]
                ELSE subscription
  IN [previous |-> previous,
      subscriptions |-> [subs EXCEPT ![subscription.tributeSubscriptionId] = stored]]

\* InMemorySubscriptionStore.upsertSubscription
upsertSubscription(subs, subscription) ==
  [previous |-> subs[subscription.tributeSubscriptionId],
   subscriptions |-> [subs EXCEPT ![subscription.tributeSubscriptionId] = subscription]]

\* Faulty variant of upsertDonation: only a donation that is already stored
\* is written.
upsertDonationExistingOnly(dons, donation) ==
  [previous |-> dons[donation.donationRequestId],
   donations |-> IF dons[donation.donationRequestId].present
                 THEN [dons EXCEPT ![donation.donationRequestId] = donation]
                 ELSE dons]

\* Faulty variant of upsertDonation: the record is written under every
\* stored key.
upsertDonationEveryStoredKey(dons, donation) ==
  [previous |-> dons[donation.donationRequestId],
   donations |-> [k \in DOMAIN dons |->
                    IF k = donation.donationRequestId \/ dons[k].present
                    THEN donation ELSE dons[k]]]

\* InMemorySubscriptionStore.upsertDonation
upsertDonation(dons, donation) ==
  [previous |-> dons[donation.donationRequestId],
   donations |-> [dons EXCEPT ![donation.donationRequestId] = donation]]

\* The lastEventAt a cancellation carries: the parsed payload.sent_at when
\* the cancellation payload has one, else cancelledAt.
cancellationLastEventAt(cancellation) ==
  IF cancellation.sent_at # NoTime THEN cancellation.sent_at ELSE cancellation.cancelledAt

\* Faulty variant of markSubscriptionCancelled: an unknown id gets a new,
\* cancelled record.
markSubscriptionCancelledOrCreate(subs, tributeSubscriptionId, cancellation) ==
  LET subscription == Get(subs, tributeSubscriptionId, NoSub)
      base == IF subscription.present THEN subscription
              ELSE [present |-> TRUE, planId |-> Unset,
                    tributeSubscriptionId |-> tributeSubscriptionId,
                    tributePeriodId |-> NoId, telegramUserId |-> NoUser,
                    amount |-> NoAmount, currency |-> Unset, period |-> Unset,
                    status |-> "active", createdAt |-> cancellation.cancelledAt,
                    lastEventAt |-> NoTime, cancelledAt |-> NoTime,
                    cancelReason |-> Unset]
      updated == [base EXCEPT
                    !.status = "cancelled",
                    !.cancelledAt = cancellation.cancelledAt,
                    !.cancelReason = cancellation.cancelReason,
                    !.lastEventAt = cancellationLastEventAt(cancellation)]
  IN [updated |-> updated,
      subscriptions |-> [subs EXCEPT ![tributeSubscriptionId] = updated]]

\* InMemorySubscriptionStore.markSubscriptionCancelled
markSubscriptionCancelled(subs, tributeSubscriptionId, cancellation) ==
  LET subscription == Get(subs, tributeSubscriptionId, NoSub)
  IN IF ~subscription.present THEN [updated |-> NoSub, subscriptions |-> subs]
     ELSE LET updated == [subscription EXCEPT
                            !.status = "cancelled",
                            !.cancelledAt = cancellation.cancelledAt,
                            !.cancelReason = cancellation.cancelReason,
                            !.lastEventAt = cancellationLastEventAt(cancellation)]
          IN [updated |-> updated,
              subscriptions |-> [subs EXCEPT ![tributeSubscriptionId] = updated]]

\* Faulty variant of markDonationCancelled: an unknown id gets a new,
\* cancelled record.
markDonationCancelledOrCreate(dons, donationRequestId, cancellation) ==
  LET existing == Get(dons, donationRequestId, NoDonation)
      base == IF existing.present THEN existing
              ELSE [present |-> TRUE, donationRequestId |-> donationRequestId,
                    telegramUserId |-> NoUser, period |-> "once", amount |-> 0,
                    status |-> "active", createdAt |-> cancellation.cancelledAt,
                    lastEventAt |-> NoTime, cancelledAt |-> NoTime]
      updated == [base EXCEPT
                    !.status = "cancelled",
                    !.cancelledAt = cancellation.cancelledAt,
                    !.lastEventAt = cancellationLastEventAt(cancellation)]
  IN [updated |-> updated,
      donations |-> [dons EXCEPT ![donationRequestId] = updated]]

\* Faulty variant of markDonationCancelled: the status is set and cancelledAt
\* is left as it was.
markDonationCancelledStatusOnly(dons, donationRequestId, cancellation) ==
  LET existing == Get(dons, donationRequestId, NoDonation)
  IN IF ~existing.present THEN [updated |-> NoDonation, donations |-> dons]
     ELSE LET updated == [existing EXCEPT
                            !.status = "cancelled",
                            !.lastEventAt = cancellationLastEventAt(cancellation)]
          IN [updated |-> updated,
              donations |-> [dons EXCEPT ![donationRequestId] = updated]]

\* InMemorySubscriptionStore.markDonationCancelled
markDonationCancelled(dons, donationRequestId, cancellation) ==
  LET existing == Get(dons, donationRequestId, NoDonation)
  IN IF ~existing.present THEN [updated |-> NoDonation, donations |-> dons]
     ELSE LET updated == [existing EXCEPT
                            !.status = "cancelled",
                            !.cancelledAt = cancellation.cancelledAt,
                            !.lastEventAt = cancellationLastEventAt(cancellation)]
          IN [updated |-> updated,
              donations |-> [dons EXCEPT ![donationRequestId] = updated]]

\* Faulty variant of recordPayment: the new entry replaces the ledger.
recordPaymentOverwrite(ledger, payment) == <<payment>>

\* InMemorySubscriptionStore.recordPayment
recordPayment(ledger, payment) == Append(ledger, payment)

\* Faulty variant of raiseLastEventAt: the entity is left as the store
\* returned it.
raiseLastEventAtNever(entity, timestamp) == entity

\* The manager raises lastEventAt on the object the store returned, which is
\* the object the store holds.
raiseLastEventAt(entity, timestamp) ==
  IF entity.lastEventAt = NoTime \/ entity.lastEventAt < timestamp
  THEN [entity EXCEPT !.lastEventAt = timestamp] ELSE entity

\* ---------------------------------------------------------------- state
VARIABLES
  intents,        \* store.intents, in insertion order
  subscriptions,  \* store.subscriptions: provider subscription id -> record
  donations,      \* store.donations: donation-request id -> record
  payments,       \* store.payments, the ledger
  nextIntentId,   \* the next randomUUID()
  eventPublisher, \* constructor option: is a publisher configured
  eventPublisherFailureMode, \* constructor option: "throw" or "log"
  intentTtlMs,    \* constructor option: lifetime of an intent
  allowedWebhookEvents, \* constructor option: the event names that are processed
  calls,          \* webhook deliveries and manual cancellations made so far
  call,           \* the call that has just ended: method and arguments
  pre,            \* the store as it was when that call started
  result,         \* what that call returned or raised
  trace,          \* its store writes, emissions and publisher calls, in order
  published,      \* the results it handed to the publisher
  delivered,      \* the last webhook that wrote to the store, and how it ended
  tasks           \* two handleWebhook calls in flight at once: where each stands

vars == <<intents, subscriptions, donations, payments, nextIntentId,
          eventPublisher, eventPublisherFailureMode, intentTtlMs,
          allowedWebhookEvents, calls, call, pre, result, trace, published,
          delivered, tasks>>

Snapshot ==
  [intents |-> intents, subscriptions |-> subscriptions,
   donations |-> donations, payments |-> payments]

\* ------------------------------------------------------- outcomes of a call
Undefined == [kind |-> "undefined"]
Threw(name) == [kind |-> "error", error |-> name]

\* A call that ends before any store write or emission.
Ends(st, res) == [st |-> st, result |-> res, trace |-> << >>, published |-> << >>]

\* Faulty variant of #publishEvent: a publisher failure is swallowed in both modes.
publishEventSwallow(out, publisherOk) ==
  IF ~eventPublisher THEN out
  ELSE IF publisherOk
    THEN [out EXCEPT !.trace = Append(@, "publish"),
                     !.published = Append(@, out.result)]
    ELSE [out EXCEPT !.trace = @ \o <<"publish", "logger.error">>,
                     !.published = Append(@, out.result)]

\* #publishEvent
publishEvent(out, publisherOk) ==
  IF ~eventPublisher THEN out
  ELSE IF publisherOk
    THEN [out EXCEPT !.trace = Append(@, "publish"),
                     !.published = Append(@, out.result)]
    ELSE LET logged == [out EXCEPT !.trace = @ \o <<"publish", "logger.error">>,
                                   !.published = Append(@, out.result)]
         IN IF eventPublisherFailureMode = "throw"
            THEN [logged EXCEPT !.result = Threw("PublisherError")]
            ELSE logged

\* Faulty variant of emitResult: the generic 'event' listeners run first.
emitResultGenericFirst(out) ==
  [out EXCEPT !.trace = @ \o << "emit:event",
                                "emit:" \o out.result.category \o "." \o out.result.type,
                                "emit:" \o out.result.category \o ".any" >>]

\* The three emit calls that precede #publishEvent in every handler.
emitResult(out) ==
  [out EXCEPT !.trace = @ \o << "emit:" \o out.result.category \o "." \o out.result.type,
                                "emit:" \o out.result.category \o ".any",
                                "emit:event" >>]

\* ------------------------------------------------------------ subscriptions
\* Faulty variant of #evaluateIntent: the expiry is not looked at.
evaluateIntentIgnoreExpiry(intent, eventTimestamp) == "matched"

\* #evaluateIntent
evaluateIntent(intent, eventTimestamp) ==
  IF intent.expiresAt # NoTime /\ intent.expiresAt < eventTimestamp
  THEN "expired" ELSE "matched"

\* Faulty variant of findIntent: the oldest stored intent is taken, whatever
\* its id, user and plan.
findIntentOldest(ints, payload, planId, t) ==
  IF ints = << >> THEN [intent |-> NoIntent, intents |-> ints]
  ELSE [intent |-> ints[1], intents |-> Tail(ints)]

\* The intent lookup of #handleNewSubscription for a first-time event:
\* by payload.intent_id, then by (telegram_user_id, plan id).
findIntent(ints, payload, planId, t) ==
  LET byId == IF payload.intent_id # NoId
              THEN consumeIntent(ints, payload.intent_id)
              ELSE [intent |-> NoIntent, intents |-> ints]
  IN IF ~byId.intent.present /\ payload.telegram_user_id # NoUser
     THEN consumeIntentByTelegramAndPlan(byId.intents, payload.telegram_user_id, planId, t)
     ELSE byId

\* #handleNewSubscription
handleNewSubscription(st, event, t, publisherOk) ==
  LET payload == event.payload
      p == findPlanForPayload(payload)
  IN
  IF p = 0 THEN Ends(st, Threw("TributePlanNotFoundError"))
  ELSE IF getEventTimestampThrows(event) \/ parseDateThrows(event.created_at)
  THEN Ends(st, Threw("TributeConfigurationError"))
  ELSE
  LET plan == Plans[p]
      eventTimestamp == getEventTimestamp(event)
      createdAt == getEventCreatedAt(event)
      existingSubscription ==
        IF payload.subscription_id # NoId
        THEN Get(st.subscriptions, payload.subscription_id, NoSub) ELSE NoSub
  IN
  IF existingSubscription.present
     /\ isOutdatedEvent(existingSubscription.lastEventAt, eventTimestamp)
  THEN Ends(st, Undefined)
  ELSE
  LET found == IF existingSubscription.present
               THEN [intent |-> NoIntent, intents |-> st.intents]
               ELSE findIntent(st.intents, payload, plan.id, t)
      intent == found.intent
  IN
  IF ~existingSubscription.present /\ ~intent.present
  THEN Ends([st EXCEPT !.intents = found.intents], Threw("TributeIntentNotFoundError"))
  ELSE
  LET subscriptionRecord ==
        [present |-> TRUE,
         planId |-> plan.id,
         tributeSubscriptionId |-> payload.subscription_id,
         tributePeriodId |-> payload.period_id,
         telegramUserId |-> IF payload.telegram_user_id # NoUser
                            THEN payload.telegram_user_id
                            ELSE IF existingSubscription.present
                                 THEN existingSubscription.telegramUserId ELSE NoUser,
         amount |-> IF payload.price # NoAmount THEN payload.price
                    ELSE IF payload.amount # NoAmount THEN payload.amount ELSE plan.amount,
         currency |-> IF payload.currency # Unset THEN payload.currency ELSE plan.currency,
         period |-> IF payload.period # Unset THEN payload.period ELSE plan.period,
         status |-> "active",
         createdAt |-> IF existingSubscription.present
                       THEN existingSubscription.createdAt ELSE createdAt,
         lastEventAt |-> eventTimestamp,
         cancelledAt |-> NoTime,
         cancelReason |-> Unset]
      upserted == upsertSubscription(st.subscriptions, subscriptionRecord)
      previous == upserted.previous
      payment == [kind |-> "subscription",
                  tributeSubscriptionId |-> subscriptionRecord.tributeSubscriptionId,
                  donationRequestId |-> NoId,
                  planId |-> subscriptionRecord.planId,
                  paidAt |-> createdAt]
      res == [kind |-> "result",
              category |-> "subscription",
              type |-> IF previous.present THEN "renewed" ELSE "created",
              entity |-> subscriptionRecord,
              intent |-> intent,
              intentStatus |-> IF intent.present
                               THEN evaluateIntent(intent, eventTimestamp) ELSE Unset,
              previous |-> previous,
              source |-> Unset]
      written == [st |-> [st EXCEPT
                            !.intents = found.intents,
                            !.subscriptions = upserted.subscriptions,
                            !.payments = recordPayment(@, payment)],
                  result |-> res,
                  trace |-> (IF intent.present THEN <<"consumeIntent">> ELSE << >>)
                              \o <<"upsertSubscription", "recordPayment">>,
                  published |-> << >>]
  IN publishEvent(emitResult(written), publisherOk)

\* #handleCancelledSubscription
handleCancelledSubscription(st, event, publisherOk) ==
  LET payload == event.payload
      p == findPlanForPayload(payload)
  IN
  IF p = 0 THEN Ends(st, Threw("TributePlanNotFoundError"))
  ELSE IF getEventTimestampThrows(event) \/ parseDateThrows(event.created_at)
  THEN Ends(st, Threw("TributeConfigurationError"))
  ELSE
  LET eventTimestamp == getEventTimestamp(event)
      cancellationAt == getEventCreatedAt(event)
      existingSubscription ==
        IF payload.subscription_id # NoId
        THEN Get(st.subscriptions, payload.subscription_id, NoSub) ELSE NoSub
  IN
  IF existingSubscription.present
     /\ ( (existingSubscription.cancelledAt # NoTime
            /\ isOutdatedEvent(existingSubscription.cancelledAt, cancellationAt))
          \/ isOutdatedEvent(existingSubscription.lastEventAt, eventTimestamp) )
  THEN Ends(st, Undefined)
  ELSE
  LET cancellation == [cancelledAt |-> cancellationAt,
                       cancelReason |-> payload.cancel_reason,
                       sent_at |-> event.sent_at]
      marked == markSubscriptionCancelled(st.subscriptions, payload.subscription_id, cancellation)
  IN
  IF ~marked.updated.present THEN Ends(st, Threw("TributeSubscriptionNotFoundError"))
  ELSE
  LET updatedSubscription == raiseLastEventAt(marked.updated, eventTimestamp)
      res == [kind |-> "result",
              category |-> "subscription",
              type |-> "cancelled",
              entity |-> updatedSubscription,
              intent |-> NoIntent,
              intentStatus |-> Unset,
              previous |-> NoSub,
              source |-> Unset]
      written == [st |-> [st EXCEPT
                            !.subscriptions[payload.subscription_id] = updatedSubscription],
                  result |-> res,
                  trace |-> <<"markSubscriptionCancelled">>,
                  published |-> << >>]
  IN publishEvent(emitResult(written), publisherOk)

\* cancelSubscriptionLocally(options) at wall-clock t; options.cancelledAt
\* defaults to new Date(), options.cancelReason to 'manual'.
cancelSubscriptionLocally(st, options, t, publisherOk) ==
  IF options.tributeSubscriptionId = NoId
  THEN Ends(st, Threw("TributeConfigurationError"))
  ELSE
  LET cancellationTimestamp ==
        IF options.cancelledAt = NoTime THEN t ELSE options.cancelledAt
      cancellation == [cancelledAt |-> cancellationTimestamp,
                       cancelReason |-> options.cancelReason,
                       sent_at |-> options.payloadSentAt]
      marked == markSubscriptionCancelled(st.subscriptions, options.tributeSubscriptionId,
                                          cancellation)
  IN
  IF ~marked.updated.present THEN Ends(st, Threw("TributeSubscriptionNotFoundError"))
  ELSE
  LET updatedSubscription == raiseLastEventAt(marked.updated, cancellationTimestamp)
      res == [kind |-> "result",
              category |-> "subscription",
              type |-> "cancelled",
              entity |-> updatedSubscription,
              intent |-> NoIntent,
              intentStatus |-> Unset,
              previous |-> NoSub,
              source |-> "manual"]
      written == [st |-> [st EXCEPT
                            !.subscriptions[options.tributeSubscriptionId] = updatedSubscription],
                  result |-> res,
                  trace |-> <<"markSubscriptionCancelled">>,
                  published |-> << >>]
  IN publishEvent(emitResult(written), publisherOk)

\* ---------------------------------------------------------------- donations
donationResult(type, donation) ==
  [kind |-> "result", category |-> "donation", type |-> type, entity |-> donation,
   intent |-> NoIntent, intentStatus |-> Unset, previous |-> NoDonation, source |-> Unset]

donationPayment(donationRecord, paidAt) ==
  [kind |-> "donation",
   tributeSubscriptionId |-> NoId,
   donationRequestId |-> donationRecord.donationRequestId,
   planId |-> Unset,
   paidAt |-> paidAt]

\* Faulty variant of newDonationStatus: every new donation is active.
newDonationStatusAlwaysActive(period) == "active"

\* The status #handleNewDonation stores.
newDonationStatus(period) == IF period = "once" THEN "completed" ELSE "active"

\* Faulty variant of recurrentDonationStatus: a recurrence always activates.
recurrentDonationStatusAlwaysActive(existing) == "active"

\* The status #handleRecurrentDonation stores.
recurrentDonationStatus(existing) ==
  IF existing.present /\ existing.status = "cancelled" THEN "cancelled" ELSE "active"

\* #handleNewDonation
handleNewDonation(st, event, publisherOk) ==
  LET payload == event.payload
      donationRequestId == payload.donation_request_id
  IN
  IF donationRequestId = NoId \/ payload.telegram_user_id = NoUser
  THEN Ends(st, Threw("TributeConfigurationError"))
  ELSE
  LET existing == Get(st.donations, donationRequestId, NoDonation)
      period == IF payload.period # Unset THEN payload.period
                ELSE IF existing.present THEN existing.period ELSE "once"
  IN
  IF getEventTimestampThrows(event)
     \/ (~existing.present /\ parseDateThrows(event.created_at))
  THEN Ends(st, Threw("TributeConfigurationError"))
  ELSE
  LET eventTimestamp == getEventTimestamp(event)
      createdAt == IF existing.present THEN existing.createdAt ELSE getEventCreatedAt(event)
  IN
  IF existing.present /\ isOutdatedEvent(existing.lastEventAt, eventTimestamp)
  THEN Ends(st, Undefined)
  ELSE
  LET donationRecord ==
        [present |-> TRUE,
         donationRequestId |-> donationRequestId,
         telegramUserId |-> payload.telegram_user_id,
         period |-> period,
         amount |-> IF payload.amount # NoAmount THEN payload.amount
                    ELSE IF existing.present THEN existing.amount ELSE 0,
         status |-> newDonationStatus(period),
         createdAt |-> createdAt,
         lastEventAt |-> eventTimestamp,
         cancelledAt |-> NoTime]
      written == [st |-> [st EXCEPT
                            !.donations = upsertDonation(@, donationRecord).donations,
                            !.payments = recordPayment(@, donationPayment(donationRecord, createdAt))],
                  result |-> donationResult("created", donationRecord),
                  trace |-> <<"upsertDonation", "recordPayment">>,
                  published |-> << >>]
  IN publishEvent(emitResult(written), publisherOk)

\* #handleRecurrentDonation
handleRecurrentDonation(st, event, publisherOk) ==
  LET payload == event.payload
      donationRequestId == payload.donation_request_id
  IN
  IF donationRequestId = NoId \/ payload.telegram_user_id = NoUser
  THEN Ends(st, Threw("TributeConfigurationError"))
  ELSE
  LET existing == Get(st.donations, donationRequestId, NoDonation) IN
  IF getEventTimestampThrows(event)
     \/ (~existing.present /\ parseDateThrows(event.created_at))
  THEN Ends(st, Threw("TributeConfigurationError"))
  ELSE
  LET eventTimestamp == getEventTimestamp(event)
      createdAt == IF existing.present THEN existing.createdAt ELSE getEventCreatedAt(event)
  IN
  IF existing.present /\ isOutdatedEvent(existing.lastEventAt, eventTimestamp)
  THEN Ends(st, Undefined)
  ELSE
  LET donationRecord ==
        [present |-> TRUE,
         donationRequestId |-> donationRequestId,
         telegramUserId |-> payload.telegram_user_id,
         period |-> IF payload.period # Unset THEN payload.period
                    ELSE IF existing.present THEN existing.period ELSE "monthly",
         amount |-> IF payload.amount # NoAmount THEN payload.amount
                    ELSE IF existing.present THEN existing.amount ELSE 0,
         status |-> recurrentDonationStatus(existing),
         createdAt |-> createdAt,
         lastEventAt |-> eventTimestamp,
         cancelledAt |-> IF existing.present THEN existing.cancelledAt ELSE NoTime]
      written == [st |-> [st EXCEPT
                            !.donations = upsertDonation(@, donationRecord).donations,
                            !.payments = recordPayment(@, donationPayment(donationRecord, createdAt))],
                  result |-> donationResult("recurrent", donationRecord),
                  trace |-> <<"upsertDonation", "recordPayment">>,
                  published |-> << >>]
  IN publishEvent(emitResult(written), publisherOk)

\* #handleCancelledDonation
handleCancelledDonation(st, event, publisherOk) ==
  LET payload == event.payload
      donationRequestId == payload.donation_request_id
  IN
  IF donationRequestId = NoId THEN Ends(st, Threw("TributeConfigurationError"))
  ELSE IF getEventTimestampThrows(event) \/ parseDateThrows(event.created_at)
  THEN Ends(st, Threw("TributeConfigurationError"))
  ELSE
  LET eventTimestamp == getEventTimestamp(event)
      cancelledAt == getEventCreatedAt(event)
      existing == Get(st.donations, donationRequestId, NoDonation)
  IN
  IF existing.present
     /\ ( (existing.cancelledAt # NoTime /\ isOutdatedEvent(existing.cancelledAt, cancelledAt))
          \/ isOutdatedEvent(existing.lastEventAt, eventTimestamp) )
  THEN Ends(st, Undefined)
  ELSE
  LET cancellation == [cancelledAt |-> cancelledAt, sent_at |-> event.sent_at]
      marked == markDonationCancelled(st.donations, donationRequestId, cancellation)
  IN
  IF ~marked.updated.present THEN Ends(st, Threw("TributeDonationNotFoundError"))
  ELSE
  LET donation == raiseLastEventAt(marked.updated, eventTimestamp)
      written == [st |-> [st EXCEPT !.donations[donationRequestId] = donation],
                  result |-> donationResult("cancelled", donation),
                  trace |-> <<"markDonationCancelled">>,
                  published |-> << >>]
  IN publishEvent(emitResult(written), publisherOk)

\* ---------------------------------------------------------------- signature
apiKey == "test-secret"
signatureEncoding == "hex"

\* HMAC-SHA256 as a collision-free keyed hash of the body, and its text in an
\* encoding.  Decoding a header in the other encoding yields other bytes.
computeDigest(body, key, encoding) == [digest |-> <<key, body>>, encoding |-> encoding]
NoSignature == [digest |-> << >>, encoding |-> "none"]

\* Faulty variant of verifyTributeSignature: any header that is present verifies.
verifyAnyHeader(rawBody, signatureHeader, key, encoding) ==
  signatureHeader # NoSignature

\* verifyTributeSignature
verifyTributeSignature(rawBody, signatureHeader, key, encoding) ==
  IF signatureHeader = NoSignature THEN FALSE
  ELSE LET expected == computeDigest(rawBody, key, encoding)
       IN /\ signatureHeader.encoding = encoding
          /\ signatureHeader.digest = expected.digest

\* The trbt-signature header a sender of the given kind attaches to a body.
SignatureKinds == {"valid", "missing", "wrongKey", "wrongEncoding"}
Header(kind, body) ==
  CASE kind = "valid" -> computeDigest(body, apiKey, signatureEncoding)
    [] kind = "wrongKey" -> computeDigest(body, "other-secret", signatureEncoding)
    [] kind = "wrongEncoding" -> computeDigest(body, apiKey, "base64")
    [] OTHER -> NoSignature

\* ---------------------------------------------------------------- dispatch
\* Faulty variant of isAllowed: the allow-list is not consulted.
isAllowedAlways(allowed, name) == TRUE

\* this.allowedWebhookEvents.has(event.name)
isAllowed(allowed, name) == name \in allowed

\* handleWebhook(rawBody, signatureHeader) at wall-clock t; the body is the
\* JSON text of the envelope.
handleWebhook(st, allowed, event, signatureHeader, t, publisherOk) ==
  IF ~verifyTributeSignature(event, signatureHeader, apiKey, signatureEncoding)
  THEN Ends(st, Threw("TributeSignatureError"))
  ELSE IF ~isAllowed(allowed, event.name) THEN Ends(st, Undefined)
  ELSE CASE event.name = "new_subscription" -> handleNewSubscription(st, event, t, publisherOk)
         [] event.name = "cancelled_subscription" -> handleCancelledSubscription(st, event, publisherOk)
         [] event.name = "new_donation" -> handleNewDonation(st, event, publisherOk)
         [] event.name = "recurrent_donation" -> handleRecurrentDonation(st, event, publisherOk)
         [] event.name = "cancelled_donation" -> handleCancelledDonation(st, event, publisherOk)
         [] OTHER -> Ends(st, Undefined)

\* this.plans.find((p) => p.id === planId): the first plan with that id.
findPlanById(planId) ==
  CHOOSE i \in DOMAIN Plans :
    /\ Plans[i].id = planId
    /\ \A j \in DOMAIN Plans : Plans[j].id = planId => i <= j

\* Faulty variant of intentExpiry: the intent expires when it is created.
intentExpiryAtOnce(now, ttl) == now

\* new Date(now.getTime() + this.intentTtlMs)
intentExpiry(now, ttl) == now + ttl

\* createSubscriptionIntent({ planId, telegramUserId }) at wall-clock t, with
\* uuid the value randomUUID() returns.
createSubscriptionIntent(st, planId, telegramUserId, t, uuid) ==
  IF planId \notin PlanIds THEN Ends(st, Threw("TributePlanNotFoundError"))
  ELSE IF telegramUserId = NoUser THEN Ends(st, Threw("TributeConfigurationError"))
  ELSE LET plan == Plans[findPlanById(planId)]
           intent == [present |-> TRUE, id |-> uuid, planId |-> plan.id,
                      telegramUserId |-> telegramUserId, createdAt |-> t,
                      expiresAt |-> intentExpiry(t, intentTtlMs)]
       IN [st |-> [st EXCEPT !.intents = Append(@, intent)],
           result |-> [kind |-> "intent", intentId |-> intent.id,
                       subscriptionLink |-> plan.subscriptionLink, plan |-> plan],
           trace |-> <<"saveIntent">>,
           published |-> << >>]

\* ------------------------------------------------------------------ inputs
\* (created_at, sent_at) of an envelope.  The provider stamps created_at once
\* and sent_at at each attempt, so never before created_at; either may be
\* missing.  Envelopes with a sent_at are those of events created at time 1.
TimePairs ==
  {<<1, s>> : s \in Times} \cup {<<c, NoTime>> : c \in Times}
    \cup {<<NoTime, NoTime>>, <<NoTime, 1>>}

EmptyPayload ==
  [subscription_id |-> NoId, period_id |-> NoId, price |-> NoAmount, currency |-> Unset,
   period |-> Unset, amount |-> NoAmount, telegram_user_id |-> NoUser, intent_id |-> NoId,
   cancel_reason |-> Unset, donation_request_id |-> NoId]

\* Subscription payloads: for plan monthly-10 (ids 1 / 11), for plan basic-20
\* without a subscription_id, and one that no plan matches.
BoundPayload ==
  [EmptyPayload EXCEPT !.subscription_id = 1, !.period_id = 11, !.price = 10,
                       !.amount = 10, !.currency = "EUR", !.period = "monthly"]
UnboundPayload == [EmptyPayload EXCEPT !.amount = 20, !.currency = "eur"]
UnmatchedPayload == [BoundPayload EXCEPT !.price = 30, !.amount = 30]

SubscriptionPayloads ==
  {[BoundPayload EXCEPT !.telegram_user_id = u, !.intent_id = i] :
     u \in {NoUser, 1}, i \in {NoId, 1}}
    \cup {[UnboundPayload EXCEPT !.telegram_user_id = 1],
          [UnmatchedPayload EXCEPT !.telegram_user_id = 1]}

CancellationPayloads ==
  {[BoundPayload EXCEPT !.telegram_user_id = 1, !.cancel_reason = "user_cancelled"],
   [UnboundPayload EXCEPT !.telegram_user_id = 1, !.cancel_reason = "user_cancelled"],
   [UnmatchedPayload EXCEPT !.telegram_user_id = 1]}

DonationPayloads ==
  {[EmptyPayload EXCEPT !.donation_request_id = 1, !.telegram_user_id = 1,
                        !.amount = 5, !.period = p] : p \in {"once", "monthly", Unset}}
    \cup {[EmptyPayload EXCEPT !.telegram_user_id = 1, !.amount = 5],
          [EmptyPayload EXCEPT !.donation_request_id = 1, !.amount = 5]}

DonationCancellationPayloads ==
  {[EmptyPayload EXCEPT !.donation_request_id = d] : d \in {1, NoId}}

PayloadsOf(name) ==
  CASE name = "new_subscription" -> SubscriptionPayloads
    [] name = "cancelled_subscription" -> CancellationPayloads
    [] name \in {"new_donation", "recurrent_donation"} -> DonationPayloads
    [] name = "cancelled_donation" -> DonationCancellationPayloads
    [] OTHER -> {EmptyPayload}

Envelope(name, c, s, payload) ==
  [name |-> name, created_at |-> c, sent_at |-> s, payload |-> payload]

EnvelopesOf(names) ==
  UNION {{Envelope(name, ts[1], ts[2], payload) :
            ts \in TimePairs, payload \in PayloadsOf(name)} : name \in names}

SubscriptionEvents == {"new_subscription", "cancelled_subscription"}
DonationEvents == {"new_donation", "recurrent_donation", "cancelled_donation"}

Envelopes ==
  EnvelopesOf(SUPPORTED_WEBHOOK_EVENTS)
    \cup {Envelope("new_digital_product", 1, 1, EmptyPayload)}

\* Bodies delivered with a missing or wrong signature: one well-formed
\* envelope of each event type.
UnsignedEnvelopes ==
  {Envelope("new_subscription", 1, 1,
            [BoundPayload EXCEPT !.telegram_user_id = 1, !.intent_id = 1]),
   Envelope("cancelled_subscription", MaxTime, MaxTime,
            [BoundPayload EXCEPT !.telegram_user_id = 1, !.cancel_reason = "user_cancelled"]),
   Envelope("new_donation", 1, 1,
            [EmptyPayload EXCEPT !.donation_request_id = 1, !.telegram_user_id = 1,
                                 !.amount = 5, !.period = "once"]),
   Envelope("recurrent_donation", MaxTime, MaxTime,
            [EmptyPayload EXCEPT !.donation_request_id = 1, !.telegram_user_id = 1,
                                 !.amount = 5, !.period = "monthly"]),
   Envelope("cancelled_donation", MaxTime, MaxTime,
            [EmptyPayload EXCEPT !.donation_request_id = 1])}

\* Arguments of cancelSubscriptionLocally.
ManualOptions ==
  {[tributeSubscriptionId |-> 1, cancelledAt |-> c, cancelReason |-> "manual",
    payloadSentAt |-> NoTime] : c \in Times \cup {NoTime}}
    \cup {[tributeSubscriptionId |-> NoId, cancelledAt |-> 1, cancelReason |-> "manual",
           payloadSentAt |-> NoTime],
          [tributeSubscriptionId |-> 1, cancelledAt |-> MaxTime, cancelReason |-> "user_request",
           payloadSentAt |-> 1]}

\* ----------------------------------------------------------------- actions
NoEvent == Envelope("none", NoTime, NoTime, EmptyPayload)
NoOptions ==
  [tributeSubscriptionId |-> NoId, cancelledAt |-> NoTime, cancelReason |-> Unset,
   payloadSentAt |-> NoTime]
NoCall ==
  [op |-> "none", event |-> NoEvent, signature |-> "none", options |-> NoOptions,
   planId |-> Unset, telegramUserId |-> NoUser, at |-> NoTime, publisherOk |-> TRUE]
NoDelivery == [event |-> NoEvent, outcome |-> "none"]
NoTask == [pc |-> "none"]
NoTasks == <<NoTask, NoTask>>

Outcome(res) == IF res.kind = "error" THEN res.error ELSE res.kind

\* How the publisher answers a call that reaches it: it accepts the result
\* (TRUE) or fails.  reached is the call's outcome with a publisher that
\* accepts; a call that does not reach the publisher has nothing to fail.
PublisherOutcomes(reached) == IF reached.published # << >> THEN BOOLEAN ELSE {TRUE}

\* The caller is between calls.
Idle == call.op = "none"

\* A call, started while the caller is idle, runs to its end: the store is
\* written and the caller sees the result.
Commit(out, c) ==
  /\ pre' = Snapshot
  /\ intents' = out.st.intents
  /\ subscriptions' = out.st.subscriptions
  /\ donations' = out.st.donations
  /\ payments' = out.st.payments
  /\ result' = out.result
  /\ trace' = out.trace
  /\ published' = out.published
  /\ call' = c
  /\ delivered' = IF c.op = "handleWebhook" /\ out.trace # << >>
                  THEN [event |-> c.event, outcome |-> Outcome(out.result)]
                  ELSE delivered
  /\ UNCHANGED <<eventPublisher, eventPublisherFailureMode, intentTtlMs,
                 allowedWebhookEvents, tasks>>

\* The caller takes the result; the next call can start.
Return ==
  /\ ~Idle
  /\ \A i \in DOMAIN tasks : tasks[i].pc \in {"none", "done"}
  /\ tasks' = NoTasks
  /\ call' = NoCall
  /\ pre' = Snapshot
  /\ result' = Undefined
  /\ trace' = << >>
  /\ published' = << >>
  /\ UNCHANGED <<intents, subscriptions, donations, payments, nextIntentId,
                 eventPublisher, eventPublisherFailureMode, intentTtlMs,
                 allowedWebhookEvents, calls, delivered>>

CallRecord(op, event, signature, options, planId, user, t, publisherOk) ==
  [op |-> op, event |-> event, signature |-> signature, options |-> options,
   planId |-> planId, telegramUserId |-> user, at |-> t, publisherOk |-> publisherOk]

\* Date.now() is the wall clock: a call that reads it may read any time.
\* handleWebhook compares it only against the expiry of the payload user's
\* stored intents, in the intent lookup of a new_subscription.
ClockOf(st, event) ==
  IF /\ event.name = "new_subscription"
     /\ \E i \in DOMAIN st.intents :
          st.intents[i].telegramUserId = event.payload.telegram_user_id
  THEN Times ELSE {NoTime}

\* handleWebhook on store st with a valid signature.
Deliver(st, event, t, publisherOk) ==
  handleWebhook(st, allowedWebhookEvents, event, Header("valid", event), t, publisherOk)

\* handleWebhook with a validly signed body from E, as one of at most max
\* counted calls.
HandleWebhookWithin(E, max) ==
  /\ Idle
  /\ calls < max
  /\ calls' = calls + 1
  /\ UNCHANGED nextIntentId
  /\ \E event \in E, st \in {Snapshot} :
       \E t \in ClockOf(st, event) :
         \E reached \in {Deliver(st, event, t, TRUE)} :
           \E publisherOk \in PublisherOutcomes(reached) :
             \E out \in {IF publisherOk THEN reached ELSE Deliver(st, event, t, FALSE)} :
               Commit(out, CallRecord("handleWebhook", event, "valid", NoOptions, Unset,
                                      NoUser, t, publisherOk))

HandleWebhook(E) == HandleWebhookWithin(E, MaxCalls)

HandleUnsignedWebhook(E) ==
  /\ Idle
  /\ calls < MaxCalls
  /\ calls' = calls + 1
  /\ UNCHANGED nextIntentId
  /\ \E event \in E, kind \in SignatureKinds \ {"valid"}, st \in {Snapshot} :
       \E reached \in {handleWebhook(st, allowedWebhookEvents, event,
                                     Header(kind, event), NoTime, TRUE)} :
         \E publisherOk \in PublisherOutcomes(reached) :
           \E out \in {IF publisherOk THEN reached
                       ELSE handleWebhook(st, allowedWebhookEvents, event,
                                          Header(kind, event), NoTime, FALSE)} :
             Commit(out, CallRecord("handleWebhook", event, kind, NoOptions, Unset,
                                    NoUser, NoTime, publisherOk))

CreateSubscriptionIntent ==
  /\ Idle
  /\ nextIntentId \in IntentIds
  /\ UNCHANGED calls
  /\ \E planId \in PlanIds \cup {"unknown"}, user \in Users \cup {NoUser}, t \in Times :
       \E out \in {createSubscriptionIntent(Snapshot, planId, user, t, nextIntentId)} :
          /\ Commit(out, CallRecord("createSubscriptionIntent", NoEvent, "none", NoOptions,
                                    planId, user, t, TRUE))
          /\ nextIntentId' = IF out.result.kind = "intent" THEN nextIntentId + 1
                             ELSE nextIntentId

CancelSubscriptionLocallyWithin(O, max) ==
  /\ Idle
  /\ calls < max
  /\ calls' = calls + 1
  /\ UNCHANGED nextIntentId
  /\ \E options \in O, st \in {Snapshot} :
       \E t \in (IF options.cancelledAt = NoTime THEN Times ELSE {NoTime}) :
         \E reached \in {cancelSubscriptionLocally(st, options, t, TRUE)} :
           \E publisherOk \in PublisherOutcomes(reached) :
             \E out \in {IF publisherOk THEN reached
                         ELSE cancelSubscriptionLocally(st, options, t, FALSE)} :
               Commit(out, CallRecord("cancelSubscriptionLocally", NoEvent, "none",
                                      options, Unset, NoUser, t, publisherOk))

CancelSubscriptionLocally == CancelSubscriptionLocallyWithin(ManualOptions, MaxCalls)

PublisherConfigs == {<<FALSE, "throw">>, <<TRUE, "throw">>, <<TRUE, "log">>}

\* The constructor options (eventPublisher, eventPublisherFailureMode,
\* intentTtlMs, allowedWebhookEvents): each publisher configuration with the
\* default intentTtlMs, and the manager of the expired-intent test
\* (intentTtlMs 0, no publisher); all five events allowed, the default.
ExpiredIntentTestConfig == <<FALSE, "throw", 0, SUPPORTED_WEBHOOK_EVENTS>>
ManagerConfigs ==
  {<<c[1], c[2], DEFAULT_INTENT_TTL_MS, SUPPORTED_WEBHOOK_EVENTS>> : c \in PublisherConfigs}
    \cup {ExpiredIntentTestConfig}

InitWith(configs) ==
  /\ intents = << >>
  /\ subscriptions = [k \in SubKeys |-> NoSub]
  /\ donations = [k \in DonationKeys |-> NoDonation]
  /\ payments = << >>
  /\ nextIntentId = 1
  /\ \E cfg \in configs :
       /\ eventPublisher = cfg[1]
       /\ eventPublisherFailureMode = cfg[2]
       /\ intentTtlMs = cfg[3]
       /\ allowedWebhookEvents = cfg[4]
  /\ calls = 0
  /\ tasks = NoTasks
  /\ call = NoCall
  /\ pre = Snapshot
  /\ result = Undefined
  /\ trace = << >>
  /\ published = << >>
  /\ delivered = NoDelivery

Init == InitWith(ManagerConfigs)

Next ==
  \/ HandleWebhook(Envelopes)
  \/ HandleUnsignedWebhook(UnsignedEnvelopes)
  \/ CreateSubscriptionIntent
  \/ CancelSubscriptionLocally
  \/ Return

Spec == Init /\ [][Next]_vars

\* ------------------------------------------------- entity lifecycles
\* Longer behaviours over well-formed deliveries only: one subscription and
\* one donation, created, cancelled and paid again.  Every envelope has a
\* created_at in 1..MaxLifecycleTime, names the payload user, and carries its
\* entity's id.
MaxLifecycleCalls == 3
MaxLifecycleTime == 3

LifecycleTimes == 1..MaxLifecycleTime

\* created_at alone, or created_at 1 with the sent_at of a later attempt.
WellFormedTimePairs ==
  {<<c, NoTime>> : c \in LifecycleTimes} \cup {<<1, s>> : s \in LifecycleTimes}

LifecyclePayloadsOf(name) ==
  CASE name = "new_subscription" ->
         {[BoundPayload EXCEPT !.telegram_user_id = 1, !.intent_id = 1]}
    [] name = "cancelled_subscription" ->
         {[BoundPayload EXCEPT !.telegram_user_id = 1, !.cancel_reason = "user_cancelled"]}
    [] name \in {"new_donation", "recurrent_donation"} ->
         {[EmptyPayload EXCEPT !.donation_request_id = 1, !.telegram_user_id = 1,
                               !.amount = 5, !.period = p] : p \in {"once", "monthly"}}
    [] OTHER -> {[EmptyPayload EXCEPT !.donation_request_id = 1]}

LifecycleEnvelopes ==
  UNION {{Envelope(name, ts[1], ts[2], payload) :
            ts \in WellFormedTimePairs, payload \in LifecyclePayloadsOf(name)} :
         name \in SUPPORTED_WEBHOOK_EVENTS}

LifecycleOptions ==
  {[tributeSubscriptionId |-> 1, cancelledAt |-> c, cancelReason |-> "manual",
    payloadSentAt |-> NoTime] : c \in LifecycleTimes}

\* The manager has the default intentTtlMs; every publisher configuration.
LifecycleInit ==
  InitWith({<<c[1], c[2], DEFAULT_INTENT_TTL_MS, SUPPORTED_WEBHOOK_EVENTS>> :
              c \in PublisherConfigs})

LifecycleNext ==
  \/ HandleWebhookWithin(LifecycleEnvelopes, MaxLifecycleCalls)
  \/ CreateSubscriptionIntent
  \/ CancelSubscriptionLocallyWithin(LifecycleOptions, MaxLifecycleCalls)
  \/ Return

LifecycleSpec == LifecycleInit /\ [][LifecycleNext]_vars

\* ------------------------------------------------------ configured allow-list
\* Managers constructed with allowedWebhookEvents: the subscription events
\* only (test/manager.test.js), the donation events only, or the default of
\* all five.  Each has a publisher, so that a publisher call is observable.
AllowLists == {SubscriptionEvents, DonationEvents, SUPPORTED_WEBHOOK_EVENTS}

AllowListEnvelopes ==
  UNION {{Envelope(name, c, NoTime, payload) :
            c \in Times, payload \in LifecyclePayloadsOf(name)} :
         name \in SUPPORTED_WEBHOOK_EVENTS \cup {"new_digital_product"}}

AllowListInit ==
  InitWith({<<TRUE, "throw", DEFAULT_INTENT_TTL_MS, allowed>> : allowed \in AllowLists})

AllowListNext ==
  \/ HandleWebhook(AllowListEnvelopes)
  \/ CreateSubscriptionIntent
  \/ Return

AllowListSpec == AllowListInit /\ [][AllowListNext]_vars

\* ------------------------------------------------- the verifier byte by byte
\* verifyTributeSignature as an exported function, over bodies, keys and
\* header texts spelled out: a body and a key are byte sequences, a header is
\* the text of the trbt-signature header, one character per element.
MaxBodyLen == 1
DIGEST_BYTES == 32

BodyBytes == {0, 1}
RECURSIVE SeqsUpTo(_, _)
SeqsUpTo(S, n) ==
  IF n = 0 THEN {<< >>}
  ELSE LET shorter == SeqsUpTo(S, n - 1)
       IN shorter \cup {Append(s, x) : s \in {t \in shorter : Len(t) = n - 1}, x \in S}

Bodies == SeqsUpTo(BodyBytes, MaxBodyLen)

\* What a caller may pass as rawBody: the bytes held in a Buffer, a string, a
\* Uint8Array, or in a plain object, which is none of the accepted types.
BodyTypes == {"Buffer", "string", "Uint8Array", "object"}
RawBodies == [type : BodyTypes, bytes : Bodies]

\* A missing key is undefined, null or '': falsy all three.
NoKey == << >>
Keys == {NoKey, <<107>>, <<107, 49>>}
Encodings == {"hex", "base64"}

HexDigits ==
  <<"0", "1", "2", "3", "4", "5", "6", "7", "8", "9", "a", "b", "c", "d", "e", "f">>
Base64Alphabet ==
  <<"A", "B", "C", "D", "E", "F", "G", "H", "I", "J", "K", "L", "M", "N", "O", "P",
    "Q", "R", "S", "T", "U", "V", "W", "X", "Y", "Z", "a", "b", "c", "d", "e", "f",
    "g", "h", "i", "j", "k", "l", "m", "n", "o", "p", "q", "r", "s", "t", "u", "v",
    "w", "x", "y", "z", "0", "1", "2", "3", "4", "5", "6", "7", "8", "9", "+", "/">>

\* The value of a character in an alphabet, or -1 when it is not in it.
ValueIn(alphabet, c) ==
  IF \E i \in DOMAIN alphabet : alphabet[i] = c
  THEN (CHOOSE i \in DOMAIN alphabet : alphabet[i] = c) - 1
  ELSE -1

\* normalizeBody: the bytes of a Buffer, a Uint8Array or a string; a
\* TypeError for anything else.
normalizeBodyThrows(rawBody) == rawBody.type \notin {"Buffer", "string", "Uint8Array"}
normalizeBody(rawBody) == rawBody.bytes

\* createHmac('sha256', key).update(body): 32 bytes that differ whenever the
\* key or the body differs (the digest is taken to be collision-free: the
\* bytes are an invertible scrambling of the lengths, the key and the body).
hmacSha256(key, body) ==
  LET block == <<Len(key), Len(body)>> \o key \o body
  IN [i \in 1..DIGEST_BYTES |->
        ((IF i <= Len(block) THEN block[i] ELSE 0) * 7 + 13 * i) % 256]

\* digest('hex'): two hexadecimal digits a byte.
toHex(bytes) ==
  [i \in 1..(2 * Len(bytes)) |->
     LET b == bytes[(i + 1) \div 2]
     IN HexDigits[(IF i % 2 = 1 THEN b \div 16 ELSE b % 16) + 1]]

\* digest('base64'): four characters for every three bytes, padded with '='.
toBase64(bytes) ==
  LET n == Len(bytes)
      byte(i) == IF i <= n THEN bytes[i] ELSE 0
  IN [i \in 1..(4 * ((n + 2) \div 3)) |->
        LET g == (i - 1) \div 4
            k == (i - 1) % 4
            v == byte(3 * g + 1) * 65536 + byte(3 * g + 2) * 256 + byte(3 * g + 3)
            sextet == CASE k = 0 -> v \div 262144
                        [] k = 1 -> (v \div 4096) % 64
                        [] k = 2 -> (v \div 64) % 64
                        [] OTHER -> v % 64
        IN IF (k = 2 /\ 3 * g + 2 > n) \/ (k = 3 /\ 3 * g + 3 > n)
           THEN "=" ELSE Base64Alphabet[sextet + 1]]

encode(bytes, encoding) == IF encoding = "hex" THEN toHex(bytes) ELSE toBase64(bytes)

\* Buffer.from(text, 'hex'): a byte for every pair of hexadecimal digits, up
\* to the first pair that has another character in it; a last lone character
\* is dropped.  Digits are read in either case.
hexValue(c) ==
  IF ValueIn(HexDigits, c) >= 0 THEN ValueIn(HexDigits, c)
  ELSE IF ValueIn(<<"A", "B", "C", "D", "E", "F">>, c) >= 0
       THEN 10 + ValueIn(<<"A", "B", "C", "D", "E", "F">>, c)
       ELSE -1
fromHex(text) ==
  LET pairs == Len(text) \div 2
      isPair(p) == hexValue(text[2 * p - 1]) >= 0 /\ hexValue(text[2 * p]) >= 0
      good == IF \E p \in 1..pairs : ~isPair(p)
              THEN (CHOOSE p \in 1..pairs :
                      ~isPair(p) /\ \A q \in 1..(p - 1) : isPair(q)) - 1
              ELSE pairs
  IN [p \in 1..good |->
        hexValue(text[2 * p - 1]) * 16 + hexValue(text[2 * p])]

\* Buffer.from(text, 'base64'): the characters before the padding, those of
\* the alphabet only, six bits each; the bits that do not fill a byte are
\* dropped.
fromBase64(text) ==
  LET end == IF \E i \in DOMAIN text : text[i] = "="
             THEN (CHOOSE i \in DOMAIN text :
                     text[i] = "=" /\ \A j \in 1..(i - 1) : text[j] # "=") - 1
             ELSE Len(text)
      kept == SelectSeq(SubSeq(text, 1, end), LAMBDA c : ValueIn(Base64Alphabet, c) >= 0)
      s(i) == IF i <= Len(kept) THEN ValueIn(Base64Alphabet, kept[i]) ELSE 0
  IN [j \in 1..((Len(kept) * 6) \div 8) |->
        LET q == 4 * ((j - 1) \div 3)
            r == (j - 1) % 3
        IN CASE r = 0 -> s(q + 1) * 4 + s(q + 2) \div 16
             [] r = 1 -> (s(q + 2) % 16) * 16 + s(q + 3) \div 4
             [] OTHER -> (s(q + 3) % 4) * 64 + s(q + 4)]

BufferFrom(text, encoding) ==
  IF encoding = "hex" THEN fromHex(text) ELSE fromBase64(text)

\* computeDigest(body, apiKey, encoding): the text of the digest.
digestText(body, key, encoding) == encode(hmacSha256(key, body), encoding)

\* The trbt-signature header: absent, or a text (which may be empty).
NoHeader == [present |-> FALSE, text |-> << >>]
HeaderOf(text) == [present |-> TRUE, text |-> text]

Boolean(b) == [kind |-> "boolean", value |-> b]

\* expected.length !== provided.length
lengthsDiffer(expected, provided) == Len(expected) # Len(provided)

\* Faulty variant of timingSafeEqual: equal lengths are enough.
timingSafeEqualLengths(expected, provided) == TRUE

\* timingSafeEqual raises on buffers of different lengths, and compares the
\* bytes of buffers of one length.
timingSafeEqualThrows(expected, provided) == Len(expected) # Len(provided)
timingSafeEqual(expected, provided) == expected = provided

\* verifyTributeSignature(rawBody, signatureHeader, apiKey, encoding), on the
\* header text itself.
verifySignatureText(rawBody, signatureHeader, key, encoding) ==
  IF key = NoKey THEN Threw("Error")
  ELSE IF ~signatureHeader.present \/ signatureHeader.text = << >> THEN Boolean(FALSE)
  ELSE IF normalizeBodyThrows(rawBody) THEN Threw("TypeError")
  ELSE LET digest == digestText(normalizeBody(rawBody), key, encoding)
           expected == BufferFrom(digest, encoding)
           provided == BufferFrom(signatureHeader.text, encoding)
       IN IF lengthsDiffer(expected, provided) THEN Boolean(FALSE)
          ELSE IF timingSafeEqualThrows(expected, provided) THEN Boolean(FALSE)
          ELSE Boolean(timingSafeEqual(expected, provided))

\* The headers a sender may attach: none, an empty one, the digest of any
\* body under any key in either encoding, and the digest of this body under
\* this key with its last two characters cut off or with two put in front.
SignedTexts ==
  {digestText(body, key, encoding) :
     body \in Bodies, key \in Keys \ {NoKey}, encoding \in Encodings}
HeadersFor(rawBody, key, encoding) ==
  LET own == digestText(rawBody.bytes, key, encoding)
  IN {NoHeader, HeaderOf(<< >>)}
       \cup {HeaderOf(text) : text \in SignedTexts}
       \cup {HeaderOf(SubSeq(own, 1, Len(own) - 2)), HeaderOf(<<"0", "0">> \o own)}

VerifyCall(rawBody, signatureHeader, key, encoding) ==
  [op |-> "verifyTributeSignature", rawBody |-> rawBody,
   signatureHeader |-> signatureHeader, apiKey |-> key, encoding |-> encoding]

VerifyTributeSignature ==
  /\ Idle
  /\ UNCHANGED <<calls, nextIntentId>>
  /\ \E rawBody \in RawBodies, key \in Keys, encoding \in Encodings :
       \E signatureHeader \in HeadersFor(rawBody, key, encoding) :
         Commit(Ends(Snapshot, verifySignatureText(rawBody, signatureHeader, key, encoding)),
                VerifyCall(rawBody, signatureHeader, key, encoding))

SignatureInit ==
  InitWith({<<FALSE, "throw", DEFAULT_INTENT_TTL_MS, SUPPORTED_WEBHOOK_EVENTS>>})

SignatureNext == VerifyTributeSignature \/ Return

SignatureSpec == SignatureInit /\ [][SignatureNext]_vars

\* --------------------------------------------- what the ended call looked like
\* The ended call was handleWebhook with a signature that verifies.
Webhook == call.op = "handleWebhook" /\ call.signature = "valid"

\* It returned an event result to its caller.
Returned == result.kind = "result"

\* It left the store as it was, emitted nothing and did not call the publisher.
Untouched == Snapshot = pre /\ trace = << >> /\ published = << >>

\* The stored entity an event is about, in store st.
KeyOf(event) ==
  IF event.name \in SubscriptionEvents THEN event.payload.subscription_id
  ELSE event.payload.donation_request_id
StoredFor(st, event) ==
  IF event.name \in SubscriptionEvents
  THEN (IF event.payload.subscription_id # NoId
        THEN Get(st.subscriptions, event.payload.subscription_id, NoSub) ELSE NoSub)
  ELSE Get(st.donations, event.payload.donation_request_id, NoDonation)

\* ------------------------------------------------- two deliveries at once
\* Two handleWebhook calls that deliver the same envelope run at once.  Each
\* is an async function: it runs from one await to the next without
\* interruption, and at an await the other call may run.  Every store
\* operation is one step, atomic for its key.  The envelopes are the
\* well-formed ones of the events that append to the ledger.
RaceEnvelopes ==
  UNION {{Envelope(name, c, NoTime, payload) :
            c \in Times, payload \in LifecyclePayloadsOf(name)} :
         name \in {"new_subscription", "new_donation", "recurrent_donation"}}

\* The store as a call sees it after its read: the entity it was given, and
\* everything else as it is now.
View(st, event, existing) ==
  IF event.name \in SubscriptionEvents
  THEN [st EXCEPT !.subscriptions[KeyOf(event)] = existing]
  ELSE [st EXCEPT !.donations[KeyOf(event)] = existing]

\* What a call does from its read on: the handler run on what it read.
Continuation(st, event, existing, t) ==
  handleWebhook(View(st, event, existing), allowedWebhookEvents, event,
                Header("valid", event), t, TRUE)

\* Both calls are made: Promise.all([handleWebhook(e), handleWebhook(e)]).
StartBoth(E, max) ==
  /\ Idle
  /\ calls < max
  /\ calls' = calls + 1
  /\ \E event \in E :
       /\ call' = CallRecord("handleWebhook twice", event, "valid", NoOptions, Unset,
                             NoUser, NoTime, TRUE)
       /\ tasks' = [i \in DOMAIN tasks |-> [pc |-> "called", event |-> event]]
  /\ pre' = Snapshot
  /\ result' = Undefined
  /\ trace' = << >>
  /\ published' = << >>
  /\ UNCHANGED <<intents, subscriptions, donations, payments, nextIntentId,
                 eventPublisher, eventPublisherFailureMode, intentTtlMs,
                 allowedWebhookEvents, delivered>>

\* Up to the first await: the signature is verified, the plan found, the
\* timestamps parsed, and the stored entity read
\* (store.getSubscriptionByTributeId / store.getDonationByRequestId).
ReadExisting ==
  \E i \in DOMAIN tasks :
  /\ tasks[i].pc = "called"
  /\ tasks' = [tasks EXCEPT ![i] =
                 [pc |-> "read", event |-> tasks[i].event,
                  existing |-> StoredFor(Snapshot, tasks[i].event)]]
  /\ UNCHANGED <<intents, subscriptions, donations, payments, nextIntentId,
                 eventPublisher, eventPublisherFailureMode, intentTtlMs,
                 allowedWebhookEvents, calls, call, pre, result, trace, published,
                 delivered>>

\* After the read: the duplicate check on what was read, then the next store
\* operation.  A first subscription consumes its intent (the upsert follows
\* at the next step); a renewal or a donation upserts its entity.  A call
\* that is dropped or fails ends here.
CheckThenWrite ==
  \E i \in DOMAIN tasks :
  /\ tasks[i].pc = "read"
  /\ \E t \in ClockOf(Snapshot, tasks[i].event) :
       LET event == tasks[i].event
           out == Continuation(Snapshot, event, tasks[i].existing, t)
           first == Len(out.trace) > 0 /\ out.trace[1] = "consumeIntent"
           upserts == out.trace # << >> /\ ~first
       IN /\ tasks' = [tasks EXCEPT ![i] =
                         [pc |-> IF out.trace = << >> THEN "done"
                                 ELSE IF first THEN "consumed" ELSE "upserted",
                          event |-> event, out |-> out]]
          /\ intents' = out.st.intents
          /\ subscriptions' = IF upserts THEN out.st.subscriptions ELSE subscriptions
          /\ donations' = IF upserts THEN out.st.donations ELSE donations
  /\ UNCHANGED <<payments, nextIntentId, eventPublisher, eventPublisherFailureMode,
                 intentTtlMs, allowedWebhookEvents, calls, call, pre, result, trace,
                 published, delivered>>

\* store.upsertSubscription of a first subscription, after its intent.
UpsertAfterIntent ==
  \E i \in DOMAIN tasks :
  /\ tasks[i].pc = "consumed"
  /\ subscriptions' =
       [subscriptions EXCEPT ![KeyOf(tasks[i].event)] =
          tasks[i].out.st.subscriptions[KeyOf(tasks[i].event)]]
  /\ tasks' = [tasks EXCEPT ![i].pc = "upserted"]
  /\ UNCHANGED <<intents, donations, payments, nextIntentId, eventPublisher,
                 eventPublisherFailureMode, intentTtlMs, allowedWebhookEvents, calls,
                 call, pre, result, trace, published, delivered>>

\* store.recordPayment: the call's entry is appended to the ledger as it is now.
RecordPayment ==
  \E i \in DOMAIN tasks :
  /\ tasks[i].pc = "upserted"
  /\ payments' = recordPayment(payments,
                               tasks[i].out.st.payments[Len(tasks[i].out.st.payments)])
  /\ tasks' = [tasks EXCEPT ![i].pc = "recorded"]
  /\ UNCHANGED <<intents, subscriptions, donations, nextIntentId, eventPublisher,
                 eventPublisherFailureMode, intentTtlMs, allowedWebhookEvents, calls,
                 call, pre, result, trace, published, delivered>>

\* After recordPayment: the listeners are notified and the call returns.
EmitResult ==
  \E i \in DOMAIN tasks :
  /\ tasks[i].pc = "recorded"
  /\ trace' = trace \o SelectSeq(tasks[i].out.trace,
                                 LAMBDA step : step \in {"emit:subscription.created",
                                                         "emit:subscription.renewed",
                                                         "emit:donation.created",
                                                         "emit:donation.recurrent"})
  /\ tasks' = [tasks EXCEPT ![i].pc = "done"]
  /\ UNCHANGED <<intents, subscriptions, donations, payments, nextIntentId,
                 eventPublisher, eventPublisherFailureMode, intentTtlMs,
                 allowedWebhookEvents, calls, call, pre, result, published, delivered>>

\* A manager without a publisher, all five events allowed.
RaceInit ==
  InitWith({<<FALSE, "throw", DEFAULT_INTENT_TTL_MS, SUPPORTED_WEBHOOK_EVENTS>>})

RaceNext ==
  \/ HandleWebhook(RaceEnvelopes)
  \/ CreateSubscriptionIntent
  \/ StartBoth(RaceEnvelopes, MaxCalls)
  \/ ReadExisting
  \/ CheckThenWrite
  \/ UpsertAfterIntent
  \/ RecordPayment
  \/ EmitResult
  \/ Return

RaceSpec == RaceInit /\ [][RaceNext]_vars

\* --------------------------------------------- two different events at once
\* Two handleWebhook calls run at once, each with its own envelope: two
\* events for one entity whose ordering timestamps differ.
SameEntity(e1, e2) ==
  /\ (e1.name \in SubscriptionEvents) = (e2.name \in SubscriptionEvents)
  /\ KeyOf(e1) = KeyOf(e2)

\* Promise.all([handleWebhook(e1), handleWebhook(e2)]).
StartTwo(E, max) ==
  /\ Idle
  /\ calls < max
  /\ calls' = calls + 1
  /\ \E e1 \in E, e2 \in E :
       /\ SameEntity(e1, e2)
       /\ getEventTimestamp(e1) # getEventTimestamp(e2)
       /\ call' = CallRecord("handleWebhook two events", e1, "valid", NoOptions, Unset,
                             NoUser, NoTime, TRUE)
       /\ tasks' = <<[pc |-> "called", event |-> e1], [pc |-> "called", event |-> e2]>>
  /\ pre' = Snapshot
  /\ result' = Undefined
  /\ trace' = << >>
  /\ published' = << >>
  /\ UNCHANGED <<intents, subscriptions, donations, payments, nextIntentId,
                 eventPublisher, eventPublisherFailureMode, intentTtlMs,
                 allowedWebhookEvents, delivered>>

OrderNext ==
  \/ HandleWebhook(RaceEnvelopes)
  \/ CreateSubscriptionIntent
  \/ StartTwo(RaceEnvelopes, MaxCalls)
  \/ ReadExisting
  \/ CheckThenWrite
  \/ UpsertAfterIntent
  \/ RecordPayment
  \/ EmitResult
  \/ Return

OrderSpec == RaceInit /\ [][OrderNext]_vars

\* ------------------------------------------------- a store that holds intents
\* A manager whose store already holds intents, as createSubscriptionIntent
\* calls for two users and both plans leave them: in the order they were
\* saved, each expiring intentTtlMs after its creation, ids in sequence.
MaxIntents == 2

IntentUsers == {1, 2}

StoredIntents(ttl) ==
  UNION {{ints \in [1..n -> [planId : PlanIds, telegramUserId : IntentUsers,
                             createdAt : Times]] :
            \A i \in 1..(n - 1) : ints[i].createdAt <= ints[i + 1].createdAt} :
         n \in 0..MaxIntents}

SavedIntents(ints, ttl) ==
  [i \in DOMAIN ints |->
     [present |-> TRUE, id |-> i, planId |-> ints[i].planId,
      telegramUserId |-> ints[i].telegramUserId, createdAt |-> ints[i].createdAt,
      expiresAt |-> intentExpiry(ints[i].createdAt, ttl)]]

\* First-time new_subscription deliveries for plan monthly-10: with or
\* without a user, and with no intent_id, a stored one, or one that is not
\* stored.
IntentEnvelopes ==
  {Envelope("new_subscription", c, NoTime,
            [BoundPayload EXCEPT !.telegram_user_id = u, !.intent_id = i]) :
     c \in Times, u \in {NoUser, 1}, i \in {NoId} \cup (1..(MaxIntents + 1))}

IntentInit ==
  /\ \E ttl \in {0, DEFAULT_INTENT_TTL_MS} :
       /\ intentTtlMs = ttl
       /\ \E ints \in StoredIntents(ttl) :
            /\ intents = SavedIntents(ints, ttl)
            /\ nextIntentId = Len(ints) + 1
  /\ subscriptions = [k \in SubKeys |-> NoSub]
  /\ donations = [k \in DonationKeys |-> NoDonation]
  /\ payments = << >>
  /\ eventPublisher = FALSE
  /\ eventPublisherFailureMode = "throw"
  /\ allowedWebhookEvents = SUPPORTED_WEBHOOK_EVENTS
  /\ calls = 0
  /\ tasks = NoTasks
  /\ call = NoCall
  /\ pre = Snapshot
  /\ result = Undefined
  /\ trace = << >>
  /\ published = << >>
  /\ delivered = NoDelivery

\* One delivery to that store.
IntentNext == HandleWebhookWithin(IntentEnvelopes, 1) \/ Return

IntentSpec == IntentInit /\ [][IntentNext]_vars

\* ------------------------------------------ two subscriptions, two donations
\* Deliveries about two provider subscription ids (1 for plan monthly-10, 2
\* for plan basic-20), a payload without a subscription id, and two donation
\* request ids, to a store that already holds intents; manual cancellation of
\* either subscription.
FrameSubscriptionPayloads ==
  {[BoundPayload EXCEPT !.telegram_user_id = 1, !.intent_id = i,
                        !.cancel_reason = "user_cancelled"] : i \in {NoId, 1}}
    \cup {[UnboundPayload EXCEPT !.subscription_id = s, !.telegram_user_id = 1,
                                 !.intent_id = i, !.cancel_reason = "user_cancelled"] :
            s \in {2, NoId}, i \in {NoId, 1}}

FrameDonationPayloads ==
  {[EmptyPayload EXCEPT !.donation_request_id = d, !.telegram_user_id = 1,
                        !.amount = 5, !.period = p] :
     d \in {1, 2}, p \in {"once", "monthly"}}

FrameEnvelopes ==
  UNION {{Envelope(name, c, NoTime, payload) :
            c \in Times,
            payload \in (IF name \in SubscriptionEvents THEN FrameSubscriptionPayloads
                         ELSE FrameDonationPayloads)} :
         name \in SUPPORTED_WEBHOOK_EVENTS}

FrameOptions ==
  {[tributeSubscriptionId |-> s, cancelledAt |-> c, cancelReason |-> "manual",
    payloadSentAt |-> NoTime] : s \in {1, 2}, c \in Times}

\* The store holds intents of user 1, saved at time 1 with the default
\* intentTtlMs.
FrameInit ==
  /\ intentTtlMs = DEFAULT_INTENT_TTL_MS
  /\ \E ints \in StoredIntents(DEFAULT_INTENT_TTL_MS) :
       /\ \A i \in DOMAIN ints : ints[i].telegramUserId = 1 /\ ints[i].createdAt = 1
       /\ intents = SavedIntents(ints, DEFAULT_INTENT_TTL_MS)
       /\ nextIntentId = Len(ints) + 1
  /\ subscriptions = [k \in SubKeys |-> NoSub]
  /\ donations = [k \in DonationKeys |-> NoDonation]
  /\ payments = << >>
  /\ eventPublisher = FALSE
  /\ eventPublisherFailureMode = "throw"
  /\ allowedWebhookEvents = SUPPORTED_WEBHOOK_EVENTS
  /\ calls = 0
  /\ tasks = NoTasks
  /\ call = NoCall
  /\ pre = Snapshot
  /\ result = Undefined
  /\ trace = << >>
  /\ published = << >>
  /\ delivered = NoDelivery

FrameNext ==
  \/ HandleWebhookWithin(FrameEnvelopes, MaxCalls)
  \/ CancelSubscriptionLocallyWithin(FrameOptions, MaxCalls)
  \/ Return

FrameSpec == FrameInit /\ [][FrameNext]_vars

\* ------------------------------------------------------------ plan resolution
\* new_subscription and cancelled_subscription deliveries whose payloads take
\* every combination of the fields plan resolution compares, to a store that
\* holds intents.
PlanPayloads ==
  {[EmptyPayload EXCEPT !.subscription_id = s, !.period_id = pid, !.price = pr,
                        !.currency = cur, !.period = per, !.amount = am,
                        !.telegram_user_id = 1, !.cancel_reason = "user_cancelled"] :
     s \in {NoId, 1, 2}, pid \in {NoId, 11}, pr \in {NoAmount, 10, 20},
     cur \in {Unset, "EUR", "eur", "usd"}, per \in {Unset, "monthly", "yearly"},
     am \in {NoAmount, 10, 20, 30}}

PlanEnvelopes ==
  {Envelope(name, c, NoTime, payload) :
     name \in SubscriptionEvents, c \in Times, payload \in PlanPayloads}

PlanNext == HandleWebhookWithin(PlanEnvelopes, 1) \/ Return

PlanSpec == FrameInit /\ [][PlanNext]_vars

\* ---------------------------------------------------------------------- C1
\* C1: once handleWebhook has returned a result for an envelope, the next
\* handleWebhook with the identical envelope (same name, payload, created_at
\* and sent_at) returns undefined, appends no ledger entry, emits no listener
\* event, does not call the publisher and leaves the stored entities unchanged.
C1_RedeliveryIsDropped ==
  [][ ( /\ call'.op = "handleWebhook" /\ call'.signature = "valid"
        /\ delivered.outcome = "result"
        /\ call'.event = delivered.event )
      => ( /\ result' = Undefined
           /\ payments' = payments
           /\ trace' = << >>
           /\ published' = << >>
           /\ subscriptions' = subscriptions
           /\ donations' = donations ) ]_vars

\* ---------------------------------------------------------------------- C2
OrderedEvents == {"new_subscription", "new_donation", "recurrent_donation"}

\* A stored entity exists for the event's key and the event's ordering
\* timestamp is not after that entity's lastEventAt.
Outdated(st, event) ==
  /\ StoredFor(st, event).present
  /\ ~getEventTimestampThrows(event)
  /\ getEventTimestamp(event) <= StoredFor(st, event).lastEventAt

\* The event passes the checks its handler makes before it compares
\* timestamps: a new_subscription matches a plan and has a created_at, a
\* donation names its telegram user.
PassesValidation(event) ==
  IF event.name = "new_subscription"
  THEN findPlanForPayload(event.payload) # 0 /\ ~parseDateThrows(event.created_at)
  ELSE event.payload.telegram_user_id # NoUser

C3_LastEventAtNeverDecreases ==
  /\ \A k \in SubKeys :
       pre.subscriptions[k].present
         => /\ subscriptions[k].present
            /\ subscriptions[k].lastEventAt >= pre.subscriptions[k].lastEventAt
  /\ \A k \in DonationKeys :
       pre.donations[k].present
         => /\ donations[k].present
            /\ donations[k].lastEventAt >= pre.donations[k].lastEventAt
  /\ (Webhook /\ trace # << >>)
       => LET entity == IF call.event.name \in SubscriptionEvents
                        THEN subscriptions[call.event.payload.subscription_id]
                        ELSE donations[call.event.payload.donation_request_id]
          IN entity.present /\ entity.lastEventAt >= getEventTimestamp(call.event)

\* ---------------------------------------------------------------------- C4
\* A result that stands for a monetary transaction.
Monetary(res) ==
  /\ res.kind = "result"
  /\ \/ res.category = "subscription" /\ res.type \in {"created", "renewed"}
     \/ res.category = "donation" /\ res.type \in {"created", "recurrent"}

IsPrefix(a, b) == Len(a) <= Len(b) /\ SubSeq(b, 1, Len(a)) = a

\* C4 as stated: the ledger is append-only, and a call adds one entry if it is
\* a handleWebhook that returned a monetary result and none otherwise, so the
\* ledger's length is the number of such calls.
C4_LedgerCountsReturnedResults ==
  /\ IsPrefix(pre.payments, payments)
  /\ Len(payments) = Len(pre.payments)
                       + (IF call.op = "handleWebhook" /\ Monetary(result) THEN 1 ELSE 0)

\* The call accepted a monetary event and then failed with the publisher's
\* error: the publisher was handed the result the caller never got.
FailedAfterMonetary ==
  /\ result = Threw("PublisherError")
  /\ published # << >>
  /\ Monetary(published[1])

\* C4, amended: the ledger is append-only, and a call adds one entry if it is
\* a handleWebhook that returned a monetary result or that accepted a monetary
\* event and then failed with the publisher's error, and none otherwise.
C4_LedgerCountsAcceptedEvents ==
  /\ IsPrefix(pre.payments, payments)
  /\ Len(payments) = Len(pre.payments)
                       + (IF call.op = "handleWebhook"
                             /\ (Monetary(result) \/ FailedAfterMonetary)
                          THEN 1 ELSE 0)

\* A second entry was appended after a first, by a call the publisher failed.
C4_Witness ==
  /\ call.op = "handleWebhook" /\ FailedAfterMonetary
  /\ Len(pre.payments) = 1 /\ Len(payments) = 2

\* ---------------------------------------------------------------------- C5
\* C5: after handleWebhook has returned a result for a new_subscription,
\* new_donation or recurrent_donation, delivering the same event again (same
\* name, payload and created_at) with a later sent_at appends no ledger entry.
C5_LaterSentAtAppendsNothing ==
  [][ ( /\ call'.op = "handleWebhook" /\ call'.signature = "valid"
        /\ delivered.outcome = "result"
        /\ delivered.event.name \in OrderedEvents
        /\ delivered.event.sent_at # NoTime
        /\ call'.event.sent_at > delivered.event.sent_at
        /\ call'.event = [delivered.event EXCEPT !.sent_at = call'.event.sent_at] )
      => payments' = payments ]_vars

\* ---------------------------------------------------------------------- C6
\* C6: in 'throw' mode, when the publisher failed on an accepted event and the
\* same webhook is delivered again while the publisher works, the publisher is
\* invoked with that event's result.
C6_RedeliveryReachesPublisher ==
  [][ ( /\ eventPublisher /\ eventPublisherFailureMode = "throw"
        /\ delivered.outcome = "PublisherError"
        /\ call'.op = "handleWebhook" /\ call'.signature = "valid"
        /\ call'.event = delivered.event
        /\ call'.publisherOk )
      => ( /\ Len(published') = 1
           /\ published'[1].kind = "result" ) ]_vars

\* ---------------------------------------------------------------------- C7
\* The publisher was called and failed.
PublisherFailed == eventPublisher /\ ~call.publisherOk /\ published # << >>

Count(x, seq) == Cardinality({i \in DOMAIN seq : seq[i] = x})

\* C7: when the publisher fails on an accepted webhook event, the store keeps
\* what the call wrote (the same store as when the publisher succeeds, with
\* the entity and any ledger entry); in mode 'throw' handleWebhook fails with
\* the publisher's error, in mode 'log' it logs the failure once and returns
\* the event result.
C7_PublisherFailureKeepsWrites ==
  (call.op = "handleWebhook" /\ PublisherFailed)
    => LET ok == Deliver(pre, call.event, call.at, TRUE)
       IN /\ Snapshot = ok.st
          /\ published[1].entity =
               (IF call.event.name \in SubscriptionEvents
                THEN subscriptions[call.event.payload.subscription_id]
                ELSE donations[call.event.payload.donation_request_id])
          /\ Monetary(published[1]) => Len(payments) = Len(pre.payments) + 1
          /\ eventPublisherFailureMode = "throw" => result = Threw("PublisherError")
          /\ eventPublisherFailureMode = "log"
               => /\ result = ok.result
                  /\ Returned
                  /\ Count("logger.error", trace) = 1

\* In 'log' mode the publisher failed on an event that added a ledger entry.
C7_Witness ==
  /\ call.op = "handleWebhook" /\ PublisherFailed
  /\ eventPublisherFailureMode = "log"
  /\ Returned
  /\ Len(payments) = Len(pre.payments) + 1

\* ---------------------------------------------------------------------- C8
\* The store writes of an accepted event: the entity, then the ledger entry
\* if there is one; a first subscription consumes its intent before.
StoreWrites ==
  { <<"upsertSubscription", "recordPayment">>,
    <<"consumeIntent", "upsertSubscription", "recordPayment">>,
    <<"markSubscriptionCancelled">>,
    <<"upsertDonation", "recordPayment">>,
    <<"markDonationCancelled">> }

ListenerCalls(res) ==
  << "emit:" \o res.category \o "." \o res.type,
     "emit:" \o res.category \o ".any",
     "emit:event" >>

\* C8: an accepted event (webhook or manual cancellation) does its store
\* writes, then notifies '<category>.<type>', '<category>.any' and 'event'
\* listeners in that order, then calls the publisher exactly once, with the
\* result that is returned to the caller; a dropped event does none of this.
C8_FixedOrder ==
  (call.op \in {"handleWebhook", "cancelSubscriptionLocally"})
    => /\ result = Undefined => (trace = << >> /\ published = << >>)
       /\ trace = << >> => published = << >>
       /\ (trace # << >> /\ eventPublisher)
            => /\ Len(published) = 1
               /\ Count("publish", trace) = 1
               /\ Returned => result = published[1]
               /\ \E w \in StoreWrites :
                    trace = w \o ListenerCalls(published[1]) \o <<"publish">>
                              \o (IF call.publisherOk THEN << >> ELSE <<"logger.error">>)
       /\ (trace # << >> /\ ~eventPublisher)
            => /\ Returned /\ published = << >>
               /\ \E w \in StoreWrites : trace = w \o ListenerCalls(result)

\* A first subscription went through every step, its intent consumed.
C8_Witness ==
  /\ Webhook /\ eventPublisher /\ Returned
  /\ Len(trace) = 7
  /\ trace[1] = "consumeIntent"
  /\ published = <<result>>

\* ---------------------------------------------------------------------- C9
\* C9: handleWebhook with a missing or non-matching signature fails with
\* TributeSignatureError and leaves intents, subscriptions, donations and the
\* ledger as they were, notifies no listener and does not call the publisher.
C9_BadSignatureRejected ==
  (call.op = "handleWebhook" /\ call.signature # "valid")
    => (result = Threw("TributeSignatureError") /\ Untouched)

\* A body signed with another key was rejected by a store that holds data.
C9_Witness ==
  /\ call.op = "handleWebhook" /\ call.signature = "wrongKey"
  /\ result = Threw("TributeSignatureError")
  /\ pre.payments # << >>

\* --------------------------------------------------------------------- C10
\* An intent the lookup of a first new_subscription finds: the one named by
\* payload.intent_id, or one of the payload's user for the plan that has not
\* expired at the time of processing.
HasMatchingIntent(ints, payload, planId, t) ==
  \E i \in DOMAIN ints :
    \/ payload.intent_id # NoId /\ ints[i].id = payload.intent_id
    \/ /\ payload.telegram_user_id # NoUser
       /\ ints[i].telegramUserId = payload.telegram_user_id
       /\ ints[i].planId = planId
       /\ ~(ints[i].expiresAt < t)

Range(seq) == {seq[i] : i \in DOMAIN seq}

\* A valid new_subscription for a provider subscription id that has no stored
\* subscription, while a matching intent exists.
FirstSubscription ==
  /\ Webhook /\ call.event.name = "new_subscription"
  /\ call.event.payload.subscription_id # NoId
  /\ ~pre.subscriptions[call.event.payload.subscription_id].present
  /\ PassesValidation(call.event)
  /\ ~getEventTimestampThrows(call.event)
  /\ HasMatchingIntent(pre.intents, call.event.payload,
                       Plans[findPlanForPayload(call.event.payload)].id, call.at)

\* C10: the first accepted new_subscription for a provider subscription id
\* with no stored subscription, when a matching intent exists, returns a
\* subscription result of type created, removes the matched intent from the
\* store, stores the subscription as active with lastEventAt equal to the
\* event's ordering timestamp, and appends one ledger entry of kind
\* subscription.  (When the publisher fails in 'throw' mode the call raises
\* instead of returning; the writes are the same.)
C10_FirstSubscriptionCreated ==
  FirstSubscription
    => LET id == call.event.payload.subscription_id
           r == IF published # << >> THEN published[1] ELSE result
       IN /\ Returned \/ (PublisherFailed /\ eventPublisherFailureMode = "throw")
          /\ r.kind = "result" /\ r.category = "subscription" /\ r.type = "created"
          /\ r.intent \in Range(pre.intents)
          /\ r.intent \notin Range(intents)
          /\ subscriptions[id].present
          /\ subscriptions[id].status = "active"
          /\ subscriptions[id].lastEventAt = getEventTimestamp(call.event)
          /\ Len(payments) = Len(pre.payments) + 1
          /\ payments[Len(payments)].kind = "subscription"
          /\ payments[Len(payments)].tributeSubscriptionId = id

\* A first subscription was created from an intent and returned.
C10_Witness ==
  /\ FirstSubscription /\ Returned
  /\ result.type = "created"
  /\ intents = << >>
  /\ subscriptions[call.event.payload.subscription_id].status = "active"

\* --------------------------------------------------------------------- C11
\* A valid new_subscription for a provider subscription id that has no stored
\* subscription, while no intent can be found for it.
FirstSubscriptionWithoutIntent ==
  /\ Webhook /\ call.event.name = "new_subscription"
  /\ call.event.payload.subscription_id # NoId
  /\ ~pre.subscriptions[call.event.payload.subscription_id].present
  /\ PassesValidation(call.event)
  /\ ~getEventTimestampThrows(call.event)
  /\ ~HasMatchingIntent(pre.intents, call.event.payload,
                        Plans[findPlanForPayload(call.event.payload)].id, call.at)

\* C11: a new_subscription for a provider subscription id with no stored
\* subscription, when no intent is found by intent_id or by (user, plan),
\* fails with TributeIntentNotFoundError; no subscription is stored, no ledger
\* entry is appended, no listener is notified and the publisher is not called.
C11_MissingIntentRejected ==
  FirstSubscriptionWithoutIntent
    => /\ result = Threw("TributeIntentNotFoundError")
       /\ subscriptions = pre.subscriptions
       /\ donations = pre.donations
       /\ payments = pre.payments
       /\ trace = << >>
       /\ published = << >>

\* The event was rejected although the store holds an intent of its user (for
\* another plan).
C11_Witness ==
  /\ FirstSubscriptionWithoutIntent
  /\ result = Threw("TributeIntentNotFoundError")
  /\ \E i \in DOMAIN pre.intents :
       pre.intents[i].telegramUserId = call.event.payload.telegram_user_id

\* --------------------------------------------------------------------- C12
\* C12: a first-time new_subscription whose found intent has expiresAt earlier
\* than the event's ordering timestamp is still accepted: the subscription is
\* stored with status active, a ledger entry is appended, and the result (as
\* returned, and as handed to the publisher) carries the found intent with
\* intentStatus 'expired'; when the intent's expiry is not earlier than the
\* ordering timestamp the result carries intentStatus 'matched'.
C12_ExpiredIntentStillAccepted ==
  FirstSubscription
    => LET id == call.event.payload.subscription_id
           r == IF published # << >> THEN published[1] ELSE result
       IN /\ r.kind = "result"
          /\ r.intent \in Range(pre.intents)
          /\ r.intentStatus = (IF r.intent.expiresAt < getEventTimestamp(call.event)
                               THEN "expired" ELSE "matched")
          /\ subscriptions[id].present
          /\ subscriptions[id].status = "active"
          /\ Len(payments) = Len(pre.payments) + 1

\* A subscription was created from an intent that had expired before the event.
C12_Witness ==
  /\ FirstSubscription /\ Returned
  /\ result.intent.expiresAt < getEventTimestamp(call.event)
  /\ result.intentStatus = "expired"
  /\ subscriptions[call.event.payload.subscription_id].status = "active"

\* --------------------------------------------------------------------- C13
\* A valid new_subscription for a provider subscription id that has a stored
\* subscription, with an ordering timestamp newer than its lastEventAt.
Renewal ==
  /\ Webhook /\ call.event.name = "new_subscription"
  /\ call.event.payload.subscription_id # NoId
  /\ pre.subscriptions[call.event.payload.subscription_id].present
  /\ PassesValidation(call.event)
  /\ ~getEventTimestampThrows(call.event)
  /\ getEventTimestamp(call.event)
       > pre.subscriptions[call.event.payload.subscription_id].lastEventAt

\* C13: a new_subscription for a provider subscription id that already has a
\* stored subscription, with an ordering timestamp newer than lastEventAt,
\* needs no intent (none is looked up or consumed): it is accepted with type
\* renewed, carries the prior record as previousSubscription, keeps the stored
\* createdAt of the first activation, sets lastEventAt to the event's ordering
\* timestamp and appends one ledger entry.
C13_RenewalNeedsNoIntent ==
  Renewal
    => LET id == call.event.payload.subscription_id
           r == IF published # << >> THEN published[1] ELSE result
       IN /\ Returned \/ (PublisherFailed /\ eventPublisherFailureMode = "throw")
          /\ r.kind = "result" /\ r.category = "subscription" /\ r.type = "renewed"
          /\ r.previous = pre.subscriptions[id]
          /\ r.intent = NoIntent
          /\ intents = pre.intents
          /\ subscriptions[id].present
          /\ subscriptions[id].createdAt = pre.subscriptions[id].createdAt
          /\ subscriptions[id].lastEventAt = getEventTimestamp(call.event)
          /\ Len(payments) = Len(pre.payments) + 1
          /\ payments[Len(payments)].kind = "subscription"

\* A subscription was renewed, with no intent in the store, by an event
\* created later than the first activation.
C13_Witness ==
  /\ Renewal /\ Returned
  /\ pre.intents = << >>
  /\ call.event.created_at
       # pre.subscriptions[call.event.payload.subscription_id].createdAt
  /\ result.type = "renewed"

\* --------------------------------------------------------------------- C14
\* handleWebhook accepted a cancelled_subscription: it marked a stored
\* subscription cancelled.
AcceptedCancellation ==
  /\ Webhook /\ call.event.name = "cancelled_subscription"
  /\ trace # << >>
  /\ pre.subscriptions[call.event.payload.subscription_id].present

\* C14: an accepted cancelled_subscription for an existing subscription sets
\* the stored status to cancelled, cancelReason to the payload's cancel_reason
\* and cancelledAt to the event's created_at, leaves lastEventAt at least the
\* event's ordering timestamp, appends no ledger entry and emits a result of
\* type cancelled; delivering the identical cancellation again, to the store
\* as the call left it, returns undefined and leaves the status cancelled.
C14_CancellationThenRedelivery ==
  AcceptedCancellation
    => LET id == call.event.payload.subscription_id
           r == IF published # << >> THEN published[1] ELSE result
           again == Deliver(Snapshot, call.event, NoTime, TRUE)
       IN /\ subscriptions[id].status = "cancelled"
          /\ subscriptions[id].cancelReason = call.event.payload.cancel_reason
          /\ subscriptions[id].cancelledAt = call.event.created_at
          /\ subscriptions[id].lastEventAt >= getEventTimestamp(call.event)
          /\ payments = pre.payments
          /\ r.kind = "result" /\ r.type = "cancelled"
          /\ Count("emit:subscription.cancelled", trace) = 1
          /\ again.result = Undefined
          /\ again.st = Snapshot

\* --------------------------------------------------------------------- C15
\* A cancellation, by a well-formed cancelled_subscription webhook whose plan
\* resolves or by cancelSubscriptionLocally, of a provider subscription id
\* that has no stored subscription.
CancellationOfUnknown ==
  \/ /\ Webhook /\ call.event.name = "cancelled_subscription"
     /\ findPlanForPayload(call.event.payload) # 0
     /\ ~getEventTimestampThrows(call.event)
     /\ ~parseDateThrows(call.event.created_at)
     /\ ~pre.subscriptions[call.event.payload.subscription_id].present
  \/ /\ call.op = "cancelSubscriptionLocally"
     /\ call.options.tributeSubscriptionId # NoId
     /\ ~pre.subscriptions[call.options.tributeSubscriptionId].present

\* C15: a cancelled_subscription webhook (with a resolvable plan) or a
\* cancelSubscriptionLocally call for a provider subscription id that has no
\* stored subscription fails with TributeSubscriptionNotFoundError; it creates
\* no subscription, appends no ledger entry, notifies no listener and does
\* not call the publisher.
C15_CancellationNeedsSubscription ==
  CancellationOfUnknown
    => /\ result = Threw("TributeSubscriptionNotFoundError")
       /\ subscriptions = pre.subscriptions
       /\ \A k \in SubKeys : ~subscriptions[k].present
            \/ pre.subscriptions[k].present
       /\ payments = pre.payments
       /\ Untouched

\* A cancellation webhook for an unknown subscription was rejected by a store
\* that holds an intent for that subscription's plan.
C15_Witness ==
  /\ CancellationOfUnknown /\ Webhook
  /\ call.event.payload.subscription_id # NoId
  /\ pre.intents # << >>
  /\ result = Threw("TributeSubscriptionNotFoundError")

\* --------------------------------------------------------------------- C16
\* C16: a new_subscription whose ordering timestamp is newer than lastEventAt,
\* for a provider subscription id whose stored subscription is cancelled, is
\* accepted without an intent and moves the subscription from cancelled back
\* to active with cancelledAt and cancelReason cleared; the result has type
\* renewed.
C16_CancelledIsReactivated ==
  (Renewal /\ pre.subscriptions[call.event.payload.subscription_id].status = "cancelled")
    => LET id == call.event.payload.subscription_id
           r == IF published # << >> THEN published[1] ELSE result
       IN /\ Returned \/ (PublisherFailed /\ eventPublisherFailureMode = "throw")
          /\ r.kind = "result" /\ r.type = "renewed"
          /\ r.intent = NoIntent
          /\ intents = pre.intents
          /\ subscriptions[id].status = "active"
          /\ subscriptions[id].cancelledAt = NoTime
          /\ subscriptions[id].cancelReason = Unset
          /\ r.entity = subscriptions[id]

\* A cancelled subscription was reactivated while the store held no intent.
C16_Witness ==
  /\ Renewal /\ Returned
  /\ pre.subscriptions[call.event.payload.subscription_id].status = "cancelled"
  /\ pre.subscriptions[call.event.payload.subscription_id].cancelledAt # NoTime
  /\ pre.intents = << >>
  /\ subscriptions[call.event.payload.subscription_id].status = "active"

\* --------------------------------------------------------------------- C17
\* cancelSubscriptionLocally was called for a stored subscription.
ManualCancellation ==
  /\ call.op = "cancelSubscriptionLocally"
  /\ call.options.tributeSubscriptionId # NoId
  /\ pre.subscriptions[call.options.tributeSubscriptionId].present

\* C17: cancelSubscriptionLocally on an existing subscription stores status
\* cancelled with the given cancelReason and cancelledAt (the time of the call
\* when none is given), leaves the stored lastEventAt greater than or equal to
\* cancelledAt, appends no ledger entry, notifies subscription.cancelled,
\* subscription.any and event in that order, calls the publisher when one is
\* configured, and returns a result whose context.cancellation.source is
\* 'manual' (when the publisher fails in 'throw' mode the call raises and the
\* publisher has been handed that result); the result of a webhook-driven
\* cancellation has no source.
C17_ManualCancellation ==
  /\ ManualCancellation
       => LET id == call.options.tributeSubscriptionId
              r == IF published # << >> THEN published[1] ELSE result
              given == IF call.options.cancelledAt = NoTime THEN call.at
                       ELSE call.options.cancelledAt
          IN /\ Returned \/ (PublisherFailed /\ eventPublisherFailureMode = "throw")
             /\ r.kind = "result" /\ r.category = "subscription" /\ r.type = "cancelled"
             /\ r.source = "manual"
             /\ r.entity = subscriptions[id]
             /\ subscriptions[id].status = "cancelled"
             /\ subscriptions[id].cancelReason = call.options.cancelReason
             /\ subscriptions[id].cancelledAt = given
             /\ subscriptions[id].lastEventAt >= given
             /\ payments = pre.payments
             /\ SubSeq(trace, 1, 4)
                  = << "markSubscriptionCancelled", "emit:subscription.cancelled",
                       "emit:subscription.any", "emit:event" >>
             /\ eventPublisher <=> published = <<r>>
             /\ eventPublisher <=> Count("publish", trace) = 1
  /\ (Webhook /\ call.event.name = "cancelled_subscription" /\ trace # << >>)
       => LET r == IF published # << >> THEN published[1] ELSE result
          IN r.kind = "result" /\ r.type = "cancelled" /\ r.source = Unset

\* A subscription was cancelled manually at a time later than the sent_at of
\* the payload passed along; the publisher got the result that was returned.
C17_Witness ==
  /\ ManualCancellation /\ Returned
  /\ call.options.payloadSentAt # NoTime
  /\ call.options.payloadSentAt < call.options.cancelledAt
  /\ published = <<result>>
  /\ result.source = "manual"

\* --------------------------------------------------------------------- C18
\* C18: an accepted new_donation stores the donation with status completed
\* when its period (the payload's, else the stored one, else 'once') is
\* 'once' and with status active for any other period, and appends one ledger
\* entry of kind donation; a new_donation lacking donation_request_id or
\* telegram_user_id fails with TributeConfigurationError and writes nothing.
C18_NewDonationStatus ==
  /\ (Webhook /\ call.event.name = "new_donation" /\ trace # << >>)
       => LET payload == call.event.payload
              id == payload.donation_request_id
              before == pre.donations[id]
              period == IF payload.period # Unset THEN payload.period
                        ELSE IF before.present THEN before.period ELSE "once"
          IN /\ donations[id].present
             /\ donations[id].period = period
             /\ period = "once" => donations[id].status = "completed"
             /\ period # "once" => donations[id].status = "active"
             /\ Len(payments) = Len(pre.payments) + 1
             /\ IsPrefix(pre.payments, payments)
             /\ payments[Len(payments)].kind = "donation"
             /\ payments[Len(payments)].donationRequestId = id
  /\ (/\ Webhook /\ call.event.name = "new_donation"
      /\ \/ call.event.payload.donation_request_id = NoId
         \/ call.event.payload.telegram_user_id = NoUser)
       => (result = Threw("TributeConfigurationError") /\ Untouched)

\* A one-time donation was stored as completed, with its ledger entry.
C18_Witness ==
  /\ Webhook /\ call.event.name = "new_donation" /\ Returned
  /\ call.event.payload.period = "once"
  /\ donations[call.event.payload.donation_request_id].status = "completed"
  /\ payments # << >> /\ payments[Len(payments)].kind = "donation"

\* --------------------------------------------------------------------- C19
\* A well-formed recurrent_donation (it names its telegram user and has an
\* ordering timestamp) for a donation-request id whose donation is stored as
\* completed, which only a new_donation with period 'once' does.
RecurrenceOfCompleted ==
  /\ Webhook /\ call.event.name = "recurrent_donation"
  /\ call.event.payload.donation_request_id # NoId
  /\ call.event.payload.telegram_user_id # NoUser
  /\ ~getEventTimestampThrows(call.event)
  /\ pre.donations[call.event.payload.donation_request_id].present
  /\ pre.donations[call.event.payload.donation_request_id].status = "completed"

\* C19: after a new_donation with period 'once' has stored a donation as
\* completed, a recurrent_donation for the same donation-request id is
\* accepted if and only if its ordering timestamp is strictly newer than the
\* stored lastEventAt; when accepted it appends a second ledger entry and the
\* stored status becomes active, and when not it returns undefined and
\* changes nothing.
C19_RecurrenceAfterOneTime ==
  RecurrenceOfCompleted
    => LET id == call.event.payload.donation_request_id
           before == pre.donations[id]
           newer == getEventTimestamp(call.event) > before.lastEventAt
       IN /\ before.period = "once"
          /\ \E i \in DOMAIN pre.payments :
               pre.payments[i].kind = "donation" /\ pre.payments[i].donationRequestId = id
          /\ newer <=> trace # << >>
          /\ newer => /\ Len(payments) = Len(pre.payments) + 1
                      /\ IsPrefix(pre.payments, payments)
                      /\ payments[Len(payments)].donationRequestId = id
                      /\ donations[id].status = "active"
                      /\ donations[id].lastEventAt = getEventTimestamp(call.event)
          /\ ~newer => (result = Undefined /\ Untouched)

\* A recurrence of a one-time donation was accepted: second ledger entry,
\* status active.
C19_Witness ==
  /\ RecurrenceOfCompleted /\ Returned
  /\ Len(payments) = 2
  /\ donations[call.event.payload.donation_request_id].status = "active"

\* --------------------------------------------------------------------- C20
\* handleWebhook accepted a recurrent_donation for a donation that is stored
\* as cancelled.
RecurrenceOfCancelled ==
  /\ Webhook /\ call.event.name = "recurrent_donation"
  /\ trace # << >>
  /\ pre.donations[call.event.payload.donation_request_id].present
  /\ pre.donations[call.event.payload.donation_request_id].status = "cancelled"

\* C20: an accepted recurrent_donation for a donation whose stored status is
\* cancelled keeps the status cancelled and keeps the stored cancelledAt,
\* while it raises lastEventAt to the event's ordering timestamp and appends
\* one ledger entry.
C20_CancelledDonationStaysCancelled ==
  RecurrenceOfCancelled
    => LET id == call.event.payload.donation_request_id
           before == pre.donations[id]
           r == IF published # << >> THEN published[1] ELSE result
       IN /\ donations[id].status = "cancelled"
          /\ donations[id].cancelledAt = before.cancelledAt
          /\ donations[id].lastEventAt = getEventTimestamp(call.event)
          /\ donations[id].lastEventAt > before.lastEventAt
          /\ Len(payments) = Len(pre.payments) + 1
          /\ IsPrefix(pre.payments, payments)
          /\ payments[Len(payments)].kind = "donation"
          /\ payments[Len(payments)].donationRequestId = id
          /\ r.kind = "result" /\ r.type = "recurrent" /\ r.entity = donations[id]

\* A recurrence arrived after the donation's cancellation and was recorded.
C20_Witness ==
  /\ RecurrenceOfCancelled /\ Returned
  /\ pre.donations[call.event.payload.donation_request_id].cancelledAt # NoTime
  /\ donations[call.event.payload.donation_request_id].status = "cancelled"
  /\ Len(payments) = Len(pre.payments) + 1

\* --------------------------------------------------------------------- C21
\* A well-formed recurrent_donation (donation-request id, telegram user and
\* created_at present) for an id that has no stored donation.
RecurrenceOfUnknown ==
  /\ Webhook /\ call.event.name = "recurrent_donation"
  /\ call.event.payload.donation_request_id # NoId
  /\ call.event.payload.telegram_user_id # NoUser
  /\ ~getEventTimestampThrows(call.event)
  /\ ~parseDateThrows(call.event.created_at)
  /\ ~pre.donations[call.event.payload.donation_request_id].present

\* C21: a recurrent_donation for a donation-request id with no stored donation
\* is not an error: it stores a new donation record built from the payload
\* (period 'monthly' when the payload has none) with status active, appends
\* one ledger entry and returns a result of type recurrent.
C21_RecurrenceCreatesDonation ==
  RecurrenceOfUnknown
    => LET payload == call.event.payload
           id == payload.donation_request_id
           r == IF published # << >> THEN published[1] ELSE result
       IN /\ Returned \/ (PublisherFailed /\ eventPublisherFailureMode = "throw")
          /\ r.kind = "result" /\ r.category = "donation" /\ r.type = "recurrent"
          /\ r.entity = donations[id]
          /\ donations[id].present
          /\ donations[id].status = "active"
          /\ donations[id].donationRequestId = id
          /\ donations[id].telegramUserId = payload.telegram_user_id
          /\ donations[id].amount = payload.amount
          /\ donations[id].period
               = (IF payload.period # Unset THEN payload.period ELSE "monthly")
          /\ donations[id].createdAt = call.event.created_at
          /\ donations[id].lastEventAt = getEventTimestamp(call.event)
          /\ donations[id].cancelledAt = NoTime
          /\ Len(payments) = Len(pre.payments) + 1
          /\ IsPrefix(pre.payments, payments)
          /\ payments[Len(payments)].kind = "donation"
          /\ payments[Len(payments)].donationRequestId = id

\* A recurrence was the first event of its donation and was returned.
C21_Witness ==
  /\ RecurrenceOfUnknown /\ Returned
  /\ result.type = "recurrent"
  /\ donations[call.event.payload.donation_request_id].status = "active"
  /\ Len(payments) = Len(pre.payments) + 1

\* --------------------------------------------------------------------- C22
\* A well-formed cancelled_donation (donation-request id and created_at
\* present) for an id that has no stored donation.
DonationCancellationOfUnknown ==
  /\ Webhook /\ call.event.name = "cancelled_donation"
  /\ call.event.payload.donation_request_id # NoId
  /\ ~getEventTimestampThrows(call.event)
  /\ ~parseDateThrows(call.event.created_at)
  /\ ~pre.donations[call.event.payload.donation_request_id].present

\* C22: a cancelled_donation for a donation-request id with no stored donation
\* fails with TributeDonationNotFoundError and stores nothing; an accepted
\* cancelled_donation sets the stored status to cancelled and cancelledAt to
\* the event's created_at; no cancelled_donation appends a ledger entry.
C22_DonationCancellation ==
  /\ DonationCancellationOfUnknown
       => (result = Threw("TributeDonationNotFoundError") /\ Untouched)
  /\ (Webhook /\ call.event.name = "cancelled_donation" /\ trace # << >>)
       => LET id == call.event.payload.donation_request_id
              r == IF published # << >> THEN published[1] ELSE result
          IN /\ pre.donations[id].present
             /\ donations[id].status = "cancelled"
             /\ donations[id].cancelledAt = call.event.created_at
             /\ r.kind = "result" /\ r.category = "donation" /\ r.type = "cancelled"
             /\ r.entity = donations[id]
  /\ (Webhook /\ call.event.name = "cancelled_donation")
       => payments = pre.payments

\* A stored donation that had a ledger entry was cancelled.
C22_Witness ==
  /\ Webhook /\ call.event.name = "cancelled_donation" /\ Returned
  /\ pre.donations[call.event.payload.donation_request_id].status # "cancelled"
  /\ donations[call.event.payload.donation_request_id].status = "cancelled"
  /\ payments # << >>

\* --------------------------------------------------------------------- C23
\* The ended call delivered, validly signed, an event the manager does not
\* process: its name is outside the configured allow-list, or is none of the
\* five recognised names.
NotProcessed ==
  /\ Webhook
  /\ \/ call.event.name \notin allowedWebhookEvents
     \/ call.event.name \notin SUPPORTED_WEBHOOK_EVENTS

\* C23: a validly signed webhook whose event name is not in the configured
\* allow-list, or is not one of the five recognised names, makes handleWebhook
\* return undefined, without an error and without any store write, ledger
\* entry, listener notification or publisher call.
C23_DisallowedEventIsDropped ==
  NotProcessed =>
    /\ result = Undefined
    /\ Untouched
    /\ payments = pre.payments

\* A new_subscription outside the allow-list is dropped although the store
\* holds the intent it would otherwise have consumed.
C23_Witness ==
  /\ NotProcessed
  /\ call.event.name = "new_subscription"
  /\ pre.intents # << >>
  /\ result = Undefined

\* --------------------------------------------------------------------- C24
\* The ended call was a webhook that appended a ledger entry.
AppendedEntry == Webhook /\ Len(payments) = Len(pre.payments) + 1

\* C24: every ledger entry's paidAt equals the created_at of the webhook event
\* that produced it (not its sent_at, and not the time of an earlier event for
\* the same entity), for new_subscription, new_donation and
\* recurrent_donation alike.
C24_PaidAtIsEventCreatedAt ==
  AppendedEntry => payments[Len(payments)].paidAt = call.event.created_at

\* --------------------------------------------------------------------- C25
\* The ended call was createSubscriptionIntent.
IntentCall == call.op = "createSubscriptionIntent"

\* C25: createSubscriptionIntent with an unknown planId fails with
\* TributePlanNotFoundError, and with a missing user id fails with
\* TributeConfigurationError, storing no intent in either case; otherwise it
\* stores exactly one new intent for that plan and user with
\* expiresAt = createdAt + intentTtlMs, and returns that intent's id together
\* with the plan's subscriptionLink.
C25_CreateSubscriptionIntent ==
  IntentCall =>
    IF call.planId \notin PlanIds
    THEN result = Threw("TributePlanNotFoundError") /\ Untouched
    ELSE IF call.telegramUserId = NoUser
    THEN result = Threw("TributeConfigurationError") /\ Untouched
    ELSE /\ Len(intents) = Len(pre.intents) + 1
         /\ SubSeq(intents, 1, Len(pre.intents)) = pre.intents
         /\ LET stored == intents[Len(intents)] IN
              /\ stored.planId = call.planId
              /\ stored.telegramUserId = call.telegramUserId
              /\ stored.createdAt = call.at
              /\ stored.expiresAt = stored.createdAt + intentTtlMs
              /\ \A i \in DOMAIN pre.intents : pre.intents[i].id # stored.id
              /\ result.kind = "intent"
              /\ result.intentId = stored.id
              /\ \E i \in DOMAIN Plans :
                   Plans[i].id = call.planId
                     /\ result.subscriptionLink = Plans[i].subscriptionLink
         /\ subscriptions = pre.subscriptions /\ donations = pre.donations
         /\ payments = pre.payments

\* An intent was stored by a manager whose intents live for a positive time.
C25_Witness ==
  /\ IntentCall /\ result.kind = "intent"
  /\ intentTtlMs > 0
  /\ Len(intents) = Len(pre.intents) + 1

\* --------------------------------------------------------------------- C26
\* C26: the result of createSubscriptionIntent carries intentExpiresAt, equal
\* to the expiresAt of the intent it stored.
C26_ResultCarriesIntentExpiresAt ==
  (IntentCall /\ result.kind = "intent") =>
    /\ "intentExpiresAt" \in DOMAIN result
    /\ result.intentExpiresAt = intents[Len(intents)].expiresAt

\* --------------------------------------------------------------------- C27
\* The ended call was verifyTributeSignature.
VerifierCall == call.op = "verifyTributeSignature"

\* The call had a secret key and no usable header: none, an empty one, or one
\* that decodes to another length than the digest has (for a body of an
\* accepted type).
UnusableHeader ==
  /\ VerifierCall /\ call.apiKey # NoKey
  /\ \/ ~call.signatureHeader.present
     \/ call.signatureHeader.text = << >>
     \/ /\ ~normalizeBodyThrows(call.rawBody)
        /\ Len(BufferFrom(call.signatureHeader.text, call.encoding)) # DIGEST_BYTES

\* C27: verifyTributeSignature returns false, without raising, when the
\* signature header is absent or empty or decodes to a length different from
\* the digest, and fails with a ConfigurationError when the secret key is
\* missing, whatever the header is.
C27_VerifierRejectsUnusableInput ==
  /\ UnusableHeader => result = Boolean(FALSE)
  /\ (VerifierCall /\ call.apiKey = NoKey) => result = Threw("TributeConfigurationError")

\* --------------------------------------------------------------------- C28
\* The call had a secret key, a body of an accepted type and a header.
Verification ==
  /\ VerifierCall /\ call.apiKey # NoKey
  /\ ~normalizeBodyThrows(call.rawBody)
  /\ call.signatureHeader.present

\* C28: for every body and key, verifyTributeSignature returns true for the
\* signature computed over that body with that key in the configured
\* encoding, and returns false for the signature of any different body, of
\* any different key, or for the correct digest written in the other
\* encoding (hex against base64 and vice versa).
C28_OnlyTheOwnSignatureVerifies ==
  Verification =>
    \A body \in Bodies, key \in Keys \ {NoKey}, encoding \in Encodings :
      call.signatureHeader.text = digestText(body, key, encoding)
        => result = Boolean(/\ body = call.rawBody.bytes
                            /\ key = call.apiKey
                            /\ encoding = call.encoding)

\* The base64 signature of a body that is not empty verified.
C28_Witness ==
  /\ Verification
  /\ call.encoding = "base64" /\ call.rawBody.bytes # << >>
  /\ call.signatureHeader.text =
       digestText(call.rawBody.bytes, call.apiKey, call.encoding)
  /\ result = Boolean(TRUE)

\* --------------------------------------------------------------------- C29
\* The ended call failed, and not because the publisher did.
FailedOtherwise == result.kind = "error" /\ ~PublisherFailed

\* C29: in every handler, a call that fails with any error other than a
\* publisher failure has made no store mutation: if an intent has been
\* consumed or evicted, an entity written or a ledger entry appended by a
\* call, the only error that call can still raise is the publisher's.
C29_FailureLeavesStoreAlone ==
  FailedOtherwise => Snapshot = pre

\* --------------------------------------------------------------------- C30
\* Two handleWebhook calls delivering one envelope are in flight, or have
\* just ended.
TwoDeliveries == call.op = "handleWebhook twice"

\* C30: with a store whose individual operations are each atomic per key, two
\* handleWebhook calls delivering the same accepted-able envelope for the
\* same provider subscription id or donation-request id, interleaved at
\* their await points, never produce two ledger entries or two emissions for
\* that envelope.
C30_RacingDeliveriesCountOnce ==
  TwoDeliveries =>
    /\ Len(payments) <= Len(pre.payments) + 1
    /\ Len(trace) <= 1

\* --------------------------------------------------------------------- C31
\* Two calls with different events for one entity have both ended, and both
\* events were accepted.
BothAccepted ==
  /\ call.op = "handleWebhook two events"
  /\ \A i \in DOMAIN tasks : tasks[i].pc = "done" /\ tasks[i].out.trace # << >>

Larger(a, b) == IF a >= b THEN a ELSE b

\* C31: with a store whose individual operations are each atomic per key, when
\* two events with different ordering timestamps for the same entity are
\* processed by interleaved handleWebhook calls and both are accepted, the
\* stored lastEventAt ends equal to the larger of the two timestamps: the
\* watermark is never overwritten by the older event.
C31_WatermarkKeepsTheLarger ==
  BothAccepted =>
    StoredFor(Snapshot, tasks[1].event).lastEventAt =
      Larger(getEventTimestamp(tasks[1].event), getEventTimestamp(tasks[2].event))

\* --------------------------------------------------------------------- C32
\* The ended call delivered a cancellation whose entity is stored, with a
\* resolvable plan (subscriptions) and timestamps that parse.
CancellationOfStored ==
  /\ Webhook
  /\ ~getEventTimestampThrows(call.event)
  /\ ~parseDateThrows(call.event.created_at)
  /\ \/ /\ call.event.name = "cancelled_subscription"
        /\ findPlanForPayload(call.event.payload) # 0
        /\ pre.subscriptions[call.event.payload.subscription_id].present
     \/ /\ call.event.name = "cancelled_donation"
        /\ call.event.payload.donation_request_id # NoId
        /\ pre.donations[call.event.payload.donation_request_id].present

\* The entity the cancellation is about, as the store held it.
CancelledEntity(st) ==
  IF call.event.name = "cancelled_subscription"
  THEN st.subscriptions[call.event.payload.subscription_id]
  ELSE st.donations[call.event.payload.donation_request_id]

\* The stored entity makes the cancellation stale.
StaleCancellation ==
  LET stored == CancelledEntity(pre) IN
  \/ stored.cancelledAt # NoTime /\ stored.cancelledAt >= getEventCreatedAt(call.event)
  \/ stored.lastEventAt >= getEventTimestamp(call.event)

\* C32: a cancelled_subscription or cancelled_donation for an existing entity
\* is discarded (undefined, entity unchanged) when the stored cancelledAt is
\* set and is greater than or equal to the event's created_at, or when the
\* stored lastEventAt is greater than or equal to the event's ordering
\* timestamp; in particular a cancellation older than an already accepted
\* renewal never cancels the entity.
C32_StaleCancellationIsDiscarded ==
  (CancellationOfStored /\ StaleCancellation)
    => /\ result = Undefined
       /\ CancelledEntity(Snapshot) = CancelledEntity(pre)
       /\ Untouched

\* --------------------------------------------------------------------- C33
\* The ended call reactivated a subscription that a cancelled_subscription
\* webhook had cancelled.
ReactivatedAfterWebhookCancellation ==
  /\ Renewal /\ trace # << >>
  /\ pre.subscriptions[call.event.payload.subscription_id].status = "cancelled"
  /\ pre.subscriptions[call.event.payload.subscription_id].cancelReason = "user_cancelled"

\* A copy of the cancellation that had cancelled it: the same payload and
\* created_at, sent again at sentAt.
RedeliveredCancellation(sentAt) ==
  Envelope("cancelled_subscription",
           pre.subscriptions[call.event.payload.subscription_id].cancelledAt, sentAt,
           CHOOSE payload \in LifecyclePayloadsOf("cancelled_subscription") : TRUE)

\* C33: after a subscription has been cancelled by an accepted
\* cancelled_subscription and then reactivated by a newer new_subscription, a
\* redelivered copy of that earlier cancellation (same created_at, later
\* sent_at) is discarded and does not cancel the subscription again.
C33_RedeliveredCancellationIsDiscarded ==
  ReactivatedAfterWebhookCancellation =>
    \A sentAt \in 1..(MaxLifecycleTime + 1) :
      sentAt > pre.subscriptions[call.event.payload.subscription_id].lastEventAt
        => LET again == Deliver(Snapshot, RedeliveredCancellation(sentAt), NoTime, TRUE)
           IN /\ again.result = Undefined
              /\ again.st = Snapshot

\* --------------------------------------------------------------------- C34
\* A valid new_subscription for a provider subscription id that has no stored
\* subscription: the intent lookup runs.
FirstTime ==
  /\ Webhook /\ call.event.name = "new_subscription"
  /\ call.event.payload.subscription_id # NoId
  /\ ~pre.subscriptions[call.event.payload.subscription_id].present
  /\ PassesValidation(call.event)
  /\ ~getEventTimestampThrows(call.event)

\* The positions in ints of the intents of the payload's user for the plan,
\* and of those among them not past their expiry at time t.
MatchingIntents(ints, payload, planId) ==
  {i \in DOMAIN ints :
     /\ payload.telegram_user_id # NoUser
     /\ ints[i].telegramUserId = payload.telegram_user_id
     /\ ints[i].planId = planId}
LiveIntents(ints, payload, planId, t) ==
  {i \in MatchingIntents(ints, payload, planId) : ~(ints[i].expiresAt < t)}

IntentRemoved == \E i \in DOMAIN pre.intents : pre.intents[i] \notin Range(intents)

\* The intent the ended call attached to its event result, NoIntent when none.
AttachedIntent ==
  IF published # << >> THEN published[1].intent
  ELSE IF Returned THEN result.intent ELSE NoIntent

\* C35: intents are removed from the store only by a new_subscription for a
\* provider subscription id that has no stored subscription: renewals (even
\* when their payload carries an intent_id), cancellations, manual
\* cancellation, donation events and dropped events leave the set of stored
\* intents unchanged, and no intent is ever attached to two accepted events
\* (an attached intent was stored before the call and is not stored after it,
\* and stored intents have distinct ids).  A payload without a subscription
\* id is about the subscription stored under the absent id.
C35_OnlyFirstSubscriptionRemovesIntents ==
  /\ IntentRemoved
       => /\ Webhook /\ call.event.name = "new_subscription"
          /\ ~pre.subscriptions[call.event.payload.subscription_id].present
  /\ AttachedIntent.present
       => AttachedIntent \in Range(pre.intents) /\ AttachedIntent \notin Range(intents)
  /\ \A i, j \in DOMAIN intents : intents[i].id = intents[j].id => i = j

\* The same, for events that carry a provider subscription id.
C35_WithSubscriptionId ==
  (Webhook /\ call.event.name \in SubscriptionEvents
     => call.event.payload.subscription_id # NoId)
    => C35_OnlyFirstSubscriptionRemovesIntents

\* --------------------------------------------------------------------- C36
\* The ended call was a webhook delivery about a subscription, or a donation.
SubscriptionDelivery == Webhook /\ call.event.name \in SubscriptionEvents
DonationDelivery == Webhook /\ call.event.name \in DonationEvents

\* C36: handling an event for one entity key leaves every other entity
\* unchanged: a subscription event for provider id A never modifies the
\* stored subscription of a different id B nor any donation, a donation event
\* never modifies any subscription, intent or other donation, and the only
\* shared structure that grows is the ledger.
C36_OtherEntitiesUnchanged ==
  /\ SubscriptionDelivery
       => /\ \A k \in SubKeys \ {call.event.payload.subscription_id} :
               subscriptions[k] = pre.subscriptions[k]
          /\ donations = pre.donations
  /\ DonationDelivery
       => /\ subscriptions = pre.subscriptions
          /\ intents = pre.intents
          /\ \A k \in DonationKeys \ {call.event.payload.donation_request_id} :
               donations[k] = pre.donations[k]
  /\ (SubscriptionDelivery \/ DonationDelivery) => IsPrefix(pre.payments, payments)

\* A subscription event changed the subscription of one provider id while
\* another id's subscription and a donation were stored, and a donation event
\* changed one donation while another donation and a subscription were stored.
C36_Witness ==
  \/ /\ SubscriptionDelivery
     /\ call.event.payload.subscription_id = 1
     /\ subscriptions[1] # pre.subscriptions[1]
     /\ pre.subscriptions[2].present \/ pre.donations[1].present
  \/ /\ DonationDelivery
     /\ call.event.payload.donation_request_id = 1
     /\ donations[1] # pre.donations[1]
     /\ pre.donations[2].present \/ pre.subscriptions[2].present

\* --------------------------------------------------------------------- C37
\* C37: in every reachable state, a stored subscription has status active or
\* cancelled (never pending) and its cancelledAt is non-null exactly when its
\* status is cancelled; a stored donation has status completed, active or
\* cancelled and its cancelledAt is non-null exactly when its status is
\* cancelled.
C37_StatusAndCancelledAtAgree ==
  /\ \A k \in SubKeys :
       subscriptions[k].present
         => /\ subscriptions[k].status \in {"active", "cancelled"}
            /\ (subscriptions[k].cancelledAt # NoTime) = (subscriptions[k].status = "cancelled")
  /\ \A k \in DonationKeys :
       donations[k].present
         => /\ donations[k].status \in {"completed", "active", "cancelled"}
            /\ (donations[k].cancelledAt # NoTime) = (donations[k].status = "cancelled")

\* A cancelled subscription was reactivated, or a cancelled donation received
\* a recurrent_donation or a new_donation: the status and cancelledAt written
\* over a cancelled record.
C37_Witness ==
  \/ /\ Webhook /\ call.event.name = "new_subscription" /\ trace # << >>
     /\ pre.subscriptions[1].present /\ pre.subscriptions[1].status = "cancelled"
     /\ subscriptions[1].status = "active"
  \/ /\ Webhook /\ call.event.name \in {"recurrent_donation", "new_donation"} /\ trace # << >>
     /\ pre.donations[1].present /\ pre.donations[1].status = "cancelled"

\* --------------------------------------------------------------------- C38
\* A webhook delivery about a donation whose stored record is cancelled.
DeliveryToCancelledDonation ==
  /\ DonationDelivery
  /\ call.event.payload.donation_request_id # NoId
  /\ pre.donations[call.event.payload.donation_request_id].present
  /\ pre.donations[call.event.payload.donation_request_id].status = "cancelled"

\* C38: once a stored donation has status cancelled, no later webhook event
\* of any type (new_donation, recurrent_donation, cancelled_donation) changes
\* its status away from cancelled.
C38_CancelledDonationStaysCancelled ==
  DeliveryToCancelledDonation
    => donations[call.event.payload.donation_request_id].status = "cancelled"

\* The same, for every event type but new_donation.
C38_ExceptNewDonation ==
  (DeliveryToCancelledDonation /\ call.event.name # "new_donation")
    => donations[call.event.payload.donation_request_id].status = "cancelled"

\* --------------------------------------------------------------------- C39
\* A plan field is unset, or equal to the payload's field.
UnsetOrEqual(planField, unset, payloadField) ==
  planField = unset \/ planField = payloadField

\* The plan qualifies for the payload as the claim states it: every compared
\* field is unset on the plan or equal to the payload's.
QualifiesAsStated(plan, payload) ==
  /\ UnsetOrEqual(plan.tributeSubscriptionId, NoId, payload.subscription_id)
  /\ UnsetOrEqual(plan.tributePeriodId, NoId, payload.period_id)
  /\ UnsetOrEqual(plan.price, NoAmount, payload.price)
  /\ plan.currency = Unset
       \/ (payload.currency # Unset
             /\ toLowerCase(plan.currency) = toLowerCase(payload.currency))
  /\ UnsetOrEqual(plan.period, Unset, payload.period)
  /\ plan.amount = NoAmount \/ plan.amount = payload.amount \/ plan.amount = payload.price

\* The same, except that a payload without a period passes the period
\* comparison.
Qualifies(plan, payload) ==
  /\ UnsetOrEqual(plan.tributeSubscriptionId, NoId, payload.subscription_id)
  /\ UnsetOrEqual(plan.tributePeriodId, NoId, payload.period_id)
  /\ UnsetOrEqual(plan.price, NoAmount, payload.price)
  /\ plan.currency = Unset
       \/ (payload.currency # Unset
             /\ toLowerCase(plan.currency) = toLowerCase(payload.currency))
  /\ payload.period = Unset \/ UnsetOrEqual(plan.period, Unset, payload.period)
  /\ plan.amount = NoAmount \/ plan.amount = payload.amount \/ plan.amount = payload.price

\* A valid delivery of a subscription event.
SubscriptionEventDelivered ==
  /\ SubscriptionDelivery
  /\ ~getEventTimestampThrows(call.event) /\ ~parseDateThrows(call.event.created_at)

\* The configured plans with their price, currency, period and amount set
\* otherwise or left unset.
PlanVariants ==
  {[Plans[i] EXCEPT !.price = pr, !.currency = cur, !.period = per, !.amount = am] :
     i \in DOMAIN Plans, pr \in {NoAmount, 10}, cur \in {Unset, "eur", "USD"},
     per \in {Unset, "monthly"}, am \in {NoAmount, 10}}

\* What the ended call shows of plan resolution under qualification rule q:
\* no qualifying plan fails the call with TributePlanNotFoundError and leaves
\* the store alone; otherwise the call does not fail so, and a subscription it
\* wrote belongs to the first qualifying plan.  For the delivered payload the
\* predicate of #findPlanForPayload agrees with q on every plan variant.
ResolvedBy(q(_, _)) ==
  LET payload == call.event.payload
      hits == {i \in DOMAIN Plans : q(Plans[i], payload)}
  IN /\ IF hits = {}
        THEN result = Threw("TributePlanNotFoundError") /\ Untouched
        ELSE LET first == CHOOSE i \in hits : \A j \in hits : i <= j
             IN /\ result # Threw("TributePlanNotFoundError")
                /\ (call.event.name = "new_subscription" /\ trace # << >>)
                     => subscriptions[payload.subscription_id].planId = Plans[first].id
     /\ \A plan \in PlanVariants : PlanMatches(plan, payload) = q(plan, payload)

\* C39, as stated: plan resolution for a subscription payload returns the
\* first plan, in configured order, for which each of subscription id, period
\* id, price, currency (compared case-insensitively), period and amount
\* (payload amount or, failing that, payload price) is either unset on the
\* plan or equal to the payload's field; when no plan qualifies,
\* new_subscription and cancelled_subscription fail with
\* TributePlanNotFoundError before any store read or write.
C39_AsStated == SubscriptionEventDelivered => ResolvedBy(QualifiesAsStated)

\* C39, amended: the same, with the period compared only when the payload
\* carries one.
C39_PlanResolution == SubscriptionEventDelivered => ResolvedBy(Qualifies)

\* Two plans qualified and the first was taken; a payload without a period
\* resolved to a plan that has one; no plan qualified.
C39_Witness ==
  /\ SubscriptionEventDelivered
  /\ \/ /\ \A i \in DOMAIN Plans : Qualifies(Plans[i], call.event.payload)
        /\ call.event.name = "new_subscription" /\ trace # << >>
     \/ /\ call.event.payload.period = Unset
        /\ call.event.name = "new_subscription" /\ trace # << >>
     \/ /\ \A i \in DOMAIN Plans : ~Qualifies(Plans[i], call.event.payload)
        /\ result = Threw("TributePlanNotFoundError")

====
